---- MODULE Spec2Model ----
(***************************************************************************)
(* Model of the LLM registry (Rettend/llm): the manifest canonicaliser     *)
(* and version generator, the resolution run, the conditional delivery     *)
(* protocol of the HTTP endpoints and the override resolver.               *)
(*                                                                         *)
(* Data representation.  A JavaScript string is a sequence of one-char     *)
(* strings.  A JavaScript value is a record [t, s, n, o]: t is the type    *)
(* tag, s the characters of a string, n the number (or 0/1 of a boolean),  *)
(* o the properties of an object as a sequence of <<key, value>> pairs in  *)
(* insertion order, which is the order JSON.stringify emits them in.  A    *)
(* property can be present with the value undefined.  An array is a        *)
(* sequence of values.                                                     *)
(***************************************************************************)
EXTENDS Integers, Sequences, FiniteSets, TLC

(***************************************************************************)
(* Bounds of the model.                                                    *)
(***************************************************************************)
MaxRuns == 2
MaxSwaps == 2
MaxRekeys == 1
MaxTokens == 2
MaxOverrides == 2
MaxProviderOverrides == 1

(***************************************************************************)
(* Strings.                                                                *)
(***************************************************************************)
RECURSIVE TrimStart(_)
TrimStart(s) ==
    IF s # <<>> /\ Head(s) = " " THEN TrimStart(Tail(s)) ELSE s

RECURSIVE TrimEnd(_)
TrimEnd(s) ==
    IF s # <<>> /\ s[Len(s)] = " " THEN TrimEnd(SubSeq(s, 1, Len(s) - 1)) ELSE s

\* String.prototype.trim
Trim(s) == TrimEnd(TrimStart(s))

\* String.prototype.startsWith
StartsWith(s, p) == Len(s) >= Len(p) /\ SubSeq(s, 1, Len(p)) = p

\* String.prototype.slice(from) with a non-negative from (0-based)
SliceFrom(s, from) == SubSeq(s, from + 1, Len(s))

\* String.prototype.slice(0, to)
SliceTo(s, to) == SubSeq(s, 1, IF to < Len(s) THEN to ELSE Len(s))

\* String.prototype.split(sep) for a one-character separator: the pieces
\* between the separators, empty pieces included.
RECURSIVE SplitAcc(_, _, _)
SplitAcc(s, sep, cur) ==
    IF s = <<>> THEN <<cur>>
    ELSE IF Head(s) = sep THEN <<cur>> \o SplitAcc(Tail(s), sep, <<>>)
    ELSE SplitAcc(Tail(s), sep, Append(cur, Head(s)))

Split(s, sep) == SplitAcc(s, sep, <<>>)

(***************************************************************************)
(* Collation.  String.prototype.localeCompare compares the primary weights *)
(* of the characters first (letters without their case) and, when these    *)
(* are all equal, the case (lower case first).                             *)
(***************************************************************************)
CollationOrder ==
    <<" ", "-", ":", "(", ")", "0", "1", "2", "3", "4", "5", "6", "7", "8", "9",
      "a", "b", "c", "d", "e", "f", "g", "h", "i", "j", "k", "l", "m",
      "n", "o", "p", "q", "r", "s", "t", "u", "v", "w", "x", "y", "z">>

UpperOf ==
    [c \in {"A", "G", "I", "L", "M", "O", "P", "T", "X", "Z"} |->
        CASE c = "A" -> "a" [] c = "G" -> "g" [] c = "I" -> "i" [] c = "L" -> "l"
          [] c = "M" -> "m" [] c = "O" -> "o" [] c = "P" -> "p" [] c = "T" -> "t"
          [] c = "X" -> "x" [] c = "Z" -> "z"]

FoldCase(c) == IF c \in DOMAIN UpperOf THEN UpperOf[c] ELSE c

PrimaryWeight(c) ==
    LET lc == FoldCase(c)
        hits == {i \in 1..Len(CollationOrder) : CollationOrder[i] = lc}
    IN  IF hits = {} THEN 0 ELSE CHOOSE i \in hits : TRUE

TertiaryWeight(c) == IF c \in DOMAIN UpperOf THEN 1 ELSE 0

Weight(c, level) == IF level = 1 THEN PrimaryWeight(c) ELSE TertiaryWeight(c)

RECURSIVE CompareWeights(_, _, _)
CompareWeights(a, b, level) ==
    IF a = <<>> /\ b = <<>> THEN 0
    ELSE IF a = <<>> THEN -1
    ELSE IF b = <<>> THEN 1
    ELSE IF Weight(Head(a), level) < Weight(Head(b), level) THEN -1
    ELSE IF Weight(Head(a), level) > Weight(Head(b), level) THEN 1
    ELSE CompareWeights(Tail(a), Tail(b), level)

localeCompare(a, b) ==
    LET p == CompareWeights(a, b, 1)
    IN  IF p # 0 THEN p ELSE CompareWeights(a, b, 3)

(***************************************************************************)
(* Values and objects.                                                     *)
(***************************************************************************)
Undef == [t |-> "undefined", s |-> <<>>, n |-> 0, o |-> <<>>]
Str(cs) == [t |-> "string", s |-> cs, n |-> 0, o |-> <<>>]
Num(k) == [t |-> "number", s |-> <<>>, n |-> k, o |-> <<>>]
Bool(b) == [t |-> "boolean", s |-> <<>>, n |-> IF b THEN 1 ELSE 0, o |-> <<>>]
Obj(props) == [t |-> "object", s |-> <<>>, n |-> 0, o |-> props]

\* the keys of an object in insertion order
Keys(v) == [i \in 1..Len(v.o) |-> v.o[i][1]]

HasKey(v, k) == \E i \in 1..Len(v.o) : v.o[i][1] = k

\* v.k, and v?.k when v is undefined
Get(v, k) ==
    IF HasKey(v, k) THEN v.o[CHOOSE i \in 1..Len(v.o) : v.o[i][1] = k][2] ELSE Undef

\* v.k = x: an existing property keeps its place, a new one goes last
Set(v, k, x) ==
    IF HasKey(v, k)
    THEN Obj([i \in 1..Len(v.o) |-> IF v.o[i][1] = k THEN <<k, x>> ELSE v.o[i]])
    ELSE Obj(Append(v.o, <<k, x>>))

\* { ...a, ...b }
RECURSIVE SpreadProps(_, _)
SpreadProps(a, props) ==
    IF props = <<>> THEN a
    ELSE SpreadProps(Set(a, Head(props)[1], Head(props)[2]), Tail(props))

Spread(a, b) == SpreadProps(Obj(a.o), b.o)

\* ToBoolean
Truthy(v) ==
    CASE v.t = "undefined" -> FALSE
      [] v.t = "NaN" -> FALSE
      [] v.t = "string" -> v.s # <<>>
      [] v.t = "number" -> v.n # 0
      [] v.t = "boolean" -> v.n = 1
      [] OTHER -> TRUE

\* a ?? b
Coalesce(a, b) == IF a.t = "undefined" THEN b ELSE a

\* two objects with the same properties and values, whatever the key order
SameContent(a, b) ==
    /\ a.t = b.t
    /\ {a.o[i][1] : i \in 1..Len(a.o)} = {b.o[i][1] : i \in 1..Len(b.o)}
    /\ \A i \in 1..Len(a.o) :
          LET x == a.o[i][2]
              y == Get(b, a.o[i][1])
          IN  IF x.t = "object" /\ y.t = "object"
              THEN /\ {x.o[j][1] : j \in 1..Len(x.o)} = {y.o[j][1] : j \in 1..Len(y.o)}
                   /\ \A j \in 1..Len(x.o) : x.o[j][2] = Get(y, x.o[j][1])
              ELSE x = y

(***************************************************************************)
(* JSON.stringify: the text, character by character (a key, a number and   *)
(* a literal are one element each).  A property whose value is undefined   *)
(* is not emitted; the others are emitted in insertion order.              *)
(***************************************************************************)
RECURSIVE Escape(_)
Escape(cs) ==
    IF cs = <<>> THEN <<>>
    ELSE (IF Head(cs) \in {"\"", "\\"} THEN <<"\\", Head(cs)>> ELSE <<Head(cs)>>)
         \o Escape(Tail(cs))

RECURSIVE StringifyProps(_, _)
RECURSIVE Stringify(_)
StringifyProps(props, first) ==
    IF props = <<>> THEN <<>>
    ELSE IF Head(props)[2].t = "undefined" THEN StringifyProps(Tail(props), first)
    ELSE (IF first THEN <<>> ELSE <<",">>)
         \o <<"\"", Head(props)[1], "\"", ":">>
         \o Stringify(Head(props)[2])
         \o StringifyProps(Tail(props), FALSE)

Stringify(v) ==
    CASE v.t = "object" -> <<"{">> \o StringifyProps(v.o, TRUE) \o <<"}">>
      [] v.t = "string" -> <<"\"">> \o Escape(v.s) \o <<"\"">>
      [] v.t = "number" -> <<ToString(v.n)>>
      [] v.t = "boolean" -> <<IF v.n = 1 THEN "true" ELSE "false">>
      [] OTHER -> <<>>

RECURSIVE StringifyItems(_, _)
StringifyItems(arr, first) ==
    IF arr = <<>> THEN <<>>
    ELSE (IF first THEN <<>> ELSE <<",">>)
         \o Stringify(Head(arr)) \o StringifyItems(Tail(arr), FALSE)

StringifyArray(arr) == <<"[">> \o StringifyItems(arr, TRUE) \o <<"]">>

(***************************************************************************)
(* Canonicaliser and version generator (server/src/transform.ts).          *)
(***************************************************************************)
\* the comparator of sortModels
CompareModels(a, b) ==
    IF Get(a, "provider") = Get(b, "provider")
    THEN localeCompare(Get(a, "value").s, Get(b, "value").s)
    ELSE localeCompare(Get(a, "provider").s, Get(b, "provider").s)

\* the comparator of sortProviders
CompareProviders(a, b) == localeCompare(Get(a, "name").s, Get(b, "name").s)

Compare(a, b, kind) ==
    IF kind = "models" THEN CompareModels(a, b) ELSE CompareProviders(a, b)

\* Array.prototype.sort is stable: an element goes after the elements that
\* do not compare greater than it.
RECURSIVE InsertSorted(_, _, _)
InsertSorted(sorted, x, kind) ==
    IF sorted = <<>> THEN <<x>>
    ELSE IF Compare(sorted[Len(sorted)], x, kind) <= 0 THEN Append(sorted, x)
    ELSE Append(InsertSorted(SubSeq(sorted, 1, Len(sorted) - 1), x, kind),
                sorted[Len(sorted)])

RECURSIVE SortFrom(_, _, _)
SortFrom(sorted, rest, kind) ==
    IF rest = <<>> THEN sorted
    ELSE SortFrom(InsertSorted(sorted, Head(rest), kind), Tail(rest), kind)

sortModels(models) == SortFrom(<<>>, models, "models")

sortProviders(providers) == SortFrom(<<>>, providers, "providers")

\* x ? { ...x } : undefined
CopyOrUndef(x) == IF Truthy(x) THEN Spread(Obj(<<>>), x) ELSE Undef

CanonicalModel(model) ==
    LET m0 == Spread(Obj(<<>>), model)
        m1 == Set(m0, "capabilities", CopyOrUndef(Get(model, "capabilities")))
        m2 == Set(m1, "metrics", CopyOrUndef(Get(model, "metrics")))
        m3 == Set(m2, "pricing", CopyOrUndef(Get(model, "pricing")))
    IN  Set(m3, "config", CopyOrUndef(Get(model, "config")))

toCanonicalManifest(providers, models) ==
    LET canonicalProviders == [i \in 1..Len(providers) |-> Spread(Obj(<<>>), providers[i])]
        canonicalModels == [i \in 1..Len(models) |-> CanonicalModel(models[i])]
    IN  [providers |-> sortProviders(canonicalProviders),
         models |-> sortModels(canonicalModels)]

\* JSON.stringify of the canonical { providers, models } pair
StringifyCanonical(canonical) ==
    <<"{", "\"", "providers", "\"", ":">> \o StringifyArray(canonical.providers)
    \o <<",", "\"", "models", "\"", ":">> \o StringifyArray(canonical.models)
    \o <<"}">>

\* the elements of a text joined into one string
RECURSIVE Concat(_)
Concat(cs) ==
    IF cs = <<>> THEN ""
    ELSE IF Len(cs) = 1 THEN cs[1]
    ELSE LET half == Len(cs) \div 2
         IN  Concat(SubSeq(cs, 1, half)) \o Concat(SubSeq(cs, half + 1, Len(cs)))

\* a digest that is the same for every text
sha256Hex_colliding(input) == [i \in 1..64 |-> ToString(i)]

\* SHA-256 as a collision-free digest: hexadecimal digit i of the digest of
\* a text is a symbol that no other position and no other text has.
HashHexLen == 64
sha256Hex(input) ==
    LET text == Concat(input)
    IN  [i \in 1..HashHexLen |-> ToString(i) \o "#" \o text]

EtagHexLen == 32
VersionHexLen == 12
createManifestTags(providers, models) ==
    LET canonical == toCanonicalManifest(providers, models)
        json == StringifyCanonical(canonical)
        fullHash == sha256Hex(json)
        shortHash == SliceTo(fullHash, EtagHexLen)
    IN  [etag |-> <<"\"">> \o shortHash \o <<"\"">>,
         version |-> <<"v", "1", ".">> \o SliceTo(shortHash, VersionHexLen)]

(***************************************************************************)
(* Static tables (excerpts: the entries the upstream datasets of this      *)
(* model refer to).  Texts on which the program does no character-level    *)
(* work (ids, URLs, placeholders, dates of generation) are one-element     *)
(* strings.                                                                *)
(***************************************************************************)
s_openai == <<"o", "p", "e", "n", "a", "i">>
s_xai == <<"x", "a", "i">>
s_x_ai == <<"x", "-", "a", "i">>
s_meta == <<"m", "e", "t", "a">>
s_zai == <<"z", "a", "i">>
s_gpt5 == <<"g", "p", "t", "-", "5">>
s_grok == <<"g", "r", "o", "k">>
s_glm == <<"g", "l", "m">>
s_active == <<"a", "c", "t", "i", "v", "e">>

PROVIDER_MAP ==
    <<  <<s_openai, Obj(<< <<"value", Str(s_openai)>>,
                           <<"name", Str(<<"O", "p", "e", "n", "A", "I">>)>>,
                           <<"keyPlaceholder", Str(<<"sk-...">>)>>,
                           <<"website", Str(<<"https://platform.openai.com/api-keys">>)>> >>)>>,
        <<s_x_ai, Obj(<< <<"value", Str(s_xai)>>,
                         <<"name", Str(<<"x", "A", "I">>)>>,
                         <<"website", Str(<<"https://console.x.ai/">>)>> >>)>>,
        <<s_meta, Obj(<< <<"value", Str(s_meta)>>,
                         <<"name", Str(<<"M", "e", "t", "a">>)>> >>)>> >>

\* PROVIDER_MAP[slug], undefined when the table has no such entry
ProviderMapEntry(slug) ==
    LET hits == {i \in 1..Len(PROVIDER_MAP) : PROVIDER_MAP[i][1] = slug}
    IN  IF hits = {} THEN Undef ELSE PROVIDER_MAP[CHOOSE i \in hits : TRUE][2]

getProviderValue(creatorSlug) ==
    Coalesce(Get(ProviderMapEntry(creatorSlug), "value"), Str(creatorSlug))

MODEL_CAPABILITIES ==
    <<  <<s_openai, s_gpt5,
          Obj(<< <<"contextWindow", Num(128000)>>,
                 <<"capabilities", Obj(<< <<"text", Bool(TRUE)>>,
                                          <<"vision", Bool(TRUE)>>,
                                          <<"reasoning", Bool(TRUE)>>,
                                          <<"toolUse", Bool(TRUE)>>,
                                          <<"json", Bool(TRUE)>>,
                                          <<"audio", Bool(FALSE)>> >>)>> >>)>> >>

getModelCapabilities(provider, modelValue) ==
    LET hits == {i \in 1..Len(MODEL_CAPABILITIES) :
                    /\ MODEL_CAPABILITIES[i][1] = provider
                    /\ MODEL_CAPABILITIES[i][2] = modelValue}
    IN  IF hits = {} THEN Undef ELSE MODEL_CAPABILITIES[CHOOSE i \in hits : TRUE][3]

(***************************************************************************)
(* Scoring (server/src/scoring.ts).                                        *)
(***************************************************************************)
\* scoreIq with thresholds a value has to exceed
scoreIq_exclusive(intelligenceIndex) ==
    IF ~Truthy(intelligenceIndex) THEN 0
    ELSE IF intelligenceIndex.n > 65 THEN 5
    ELSE IF intelligenceIndex.n > 55 THEN 4
    ELSE IF intelligenceIndex.n > 45 THEN 3
    ELSE IF intelligenceIndex.n > 35 THEN 2
    ELSE IF intelligenceIndex.n > 25 THEN 1
    ELSE 0

scoreIq(intelligenceIndex) ==
    IF ~Truthy(intelligenceIndex) THEN 0
    ELSE IF intelligenceIndex.n >= 65 THEN 5
    ELSE IF intelligenceIndex.n >= 55 THEN 4
    ELSE IF intelligenceIndex.n >= 45 THEN 3
    ELSE IF intelligenceIndex.n >= 35 THEN 2
    ELSE IF intelligenceIndex.n >= 25 THEN 1
    ELSE 0

scoreSpeed(tokensPerSec) ==
    IF ~Truthy(tokensPerSec) THEN 0
    ELSE IF tokensPerSec.n >= 300 THEN 5
    ELSE IF tokensPerSec.n >= 200 THEN 4
    ELSE IF tokensPerSec.n >= 100 THEN 3
    ELSE IF tokensPerSec.n >= 50 THEN 2
    ELSE IF tokensPerSec.n >= 25 THEN 1
    ELSE 0

(***************************************************************************)
(* The resolution run (server/src/transform.ts, server/src/cron.ts).       *)
(***************************************************************************)
\* name.split('(')[0]?.trim()
AliasOfName(name) == Trim(Split(name, "(")[1])

transformAAModel(aaModel) ==
    LET provider == getProviderValue(Get(Get(aaModel, "model_creator"), "slug").s)
        value == Get(aaModel, "slug")
        capabilitiesData == getModelCapabilities(provider.s, value.s)
        baseName == Coalesce(Get(aaModel, "name"), Str(<<>>))
        evaluations == Get(aaModel, "evaluations")
        pricing == Get(aaModel, "pricing")
    IN  Obj(<< <<"id", Get(aaModel, "id")>>,
               <<"value", value>>,
               <<"provider", provider>>,
               <<"name", Get(aaModel, "name")>>,
               <<"alias", Str(AliasOfName(baseName.s))>>,
               <<"capabilities", Get(capabilitiesData, "capabilities")>>,
               <<"iq", Num(scoreIq(Get(evaluations, "artificial_analysis_intelligence_index")))>>,
               <<"speed", Num(scoreSpeed(Get(aaModel, "median_output_tokens_per_second")))>>,
               <<"metrics", Obj(<<
                   <<"contextWindow", Get(capabilitiesData, "contextWindow")>>,
                   <<"intelligenceIndex", Get(evaluations, "artificial_analysis_intelligence_index")>>,
                   <<"codingIndex", Get(evaluations, "artificial_analysis_coding_index")>>,
                   <<"mathIndex", Get(evaluations, "artificial_analysis_math_index")>> >>)>>,
               <<"pricing", Obj(<<
                   <<"input", Get(pricing, "price_1m_input_tokens")>>,
                   <<"output", Get(pricing, "price_1m_output_tokens")>>,
                   <<"blended", Get(pricing, "price_1m_blended_3_to_1")>> >>)>>,
               <<"releaseDate", Get(aaModel, "release_date")>>,
               <<"status", Str(s_active)>> >>)

\* Array.from(new Set(models.map(m => m.provider))): first occurrences, in order
RECURSIVE UniqueProviders(_, _)
UniqueProviders(models, seen) ==
    IF models = <<>> THEN <<>>
    ELSE LET p == Get(Head(models), "provider").s
         IN  IF p \in seen THEN UniqueProviders(Tail(models), seen)
             ELSE <<p>> \o UniqueProviders(Tail(models), seen \cup {p})

ProviderOfValue(value) ==
    LET mapped == ProviderMapEntry(value)
    IN  Obj(<< <<"value", Str(value)>>,
               <<"name", Coalesce(Get(mapped, "name"), Str(value))>>,
               <<"keyPlaceholder", Get(mapped, "keyPlaceholder")>>,
               <<"website", Get(mapped, "website")>>,
               <<"status", Str(s_active)>> >>)

\* new Date().toISOString() at time now
ToISOString(now) == <<"2026-01-01T00:00:0" \o ToString(now) \o ".000Z">>

\* fetchAndTransformManifest hashing the time of generation with the content
fetchAndTransformManifest_stamped(aaData, now) ==
    LET models == [i \in 1..Len(aaData) |-> transformAAModel(aaData[i])]
        values == UniqueProviders(models, {})
        providerList == [i \in 1..Len(values) |-> ProviderOfValue(values[i])]
        sortedProviders == sortProviders(providerList)
        sortedModels == sortModels(models)
        generatedAt == ToISOString(now)
        canonical == toCanonicalManifest(sortedProviders, sortedModels)
        shortHash == SliceTo(sha256Hex(StringifyCanonical(canonical) \o generatedAt),
                             EtagHexLen)
    IN  [version |-> <<"v", "1", ".">> \o SliceTo(shortHash, VersionHexLen),
         etag |-> <<"\"">> \o shortHash \o <<"\"">>,
         generatedAt |-> generatedAt,
         providers |-> sortedProviders,
         models |-> sortedModels]

\* fetchAndTransformManifest keeping the models in the order of the upstream
fetchAndTransformManifest_unsorted(aaData, now) ==
    LET models == [i \in 1..Len(aaData) |-> transformAAModel(aaData[i])]
        values == UniqueProviders(models, {})
        providerList == [i \in 1..Len(values) |-> ProviderOfValue(values[i])]
        sortedProviders == sortProviders(providerList)
        generatedAt == ToISOString(now)
        tags == createManifestTags(sortedProviders, sortModels(models))
    IN  [version |-> tags.version,
         etag |-> tags.etag,
         generatedAt |-> generatedAt,
         providers |-> sortedProviders,
         models |-> models]

\* fetchAndTransformManifest once the upstream answered ok with aaData, run
\* at time now
fetchAndTransformManifest(aaData, now) ==
    LET models == [i \in 1..Len(aaData) |-> transformAAModel(aaData[i])]
        values == UniqueProviders(models, {})
        providerList == [i \in 1..Len(values) |-> ProviderOfValue(values[i])]
        sortedProviders == sortProviders(providerList)
        sortedModels == sortModels(models)
        generatedAt == ToISOString(now)
        tags == createManifestTags(sortedProviders, sortedModels)
    IN  [version |-> tags.version,
         etag |-> tags.etag,
         generatedAt |-> generatedAt,
         providers |-> sortedProviders,
         models |-> sortedModels]

(***************************************************************************)
(* Query engine (shared/src/search.ts).                                    *)
(***************************************************************************)
\* an array value: the items under the keys "0", "1", ...
Arr(items) ==
    [t |-> "array", s |-> <<>>, n |-> 0,
     o |-> [i \in 1..Len(items) |-> <<ToString(i - 1), items[i]>>]]

Items(v) == [i \in 1..Len(v.o) |-> v.o[i][2]]

\* Array.isArray(x) ? x : [x]
AsList(v) == IF v.t = "array" THEN Items(v) ELSE <<v>>

\* String.prototype.toLowerCase
toLowerCase(cs) == [i \in 1..Len(cs) |-> FoldCase(cs[i])]

\* String.prototype.includes
Includes(cs, part) ==
    \E i \in 1..(Len(cs) + 1) :
        i + Len(part) - 1 <= Len(cs) /\ SubSeq(cs, i, i + Len(part) - 1) = part

Digits == <<"0", "1", "2", "3", "4", "5", "6", "7", "8", "9">>

IsDigit(c) == \E i \in 1..Len(Digits) : Digits[i] = c

DigitValue(c) == (CHOOSE i \in 1..Len(Digits) : Digits[i] = c) - 1

RECURSIVE DigitsValue(_, _)
DigitsValue(cs, acc) ==
    IF cs = <<>> THEN acc ELSE DigitsValue(Tail(cs), acc * 10 + DigitValue(Head(cs)))

\* Not-a-number, and the invalid date
NaN == [t |-> "NaN", s |-> <<>>, n |-> 0, o |-> <<>>]

\* new Date(text).getTime() for the date-only form YYYY-MM-DD, as a number
\* that grows with the date; any other text is an invalid date
DateValue(cs) ==
    IF /\ Len(cs) = 10
       /\ cs[5] = "-" /\ cs[8] = "-"
       /\ \A i \in {1, 2, 3, 4, 6, 7, 9, 10} : IsDigit(cs[i])
       /\ DigitsValue(SubSeq(cs, 6, 7), 0) \in 1..12
       /\ DigitsValue(SubSeq(cs, 9, 10), 0) \in 1..31
    THEN Num(DigitsValue(SubSeq(cs, 1, 4), 0) * 10000
             + DigitsValue(SubSeq(cs, 6, 7), 0) * 100
             + DigitsValue(SubSeq(cs, 9, 10), 0))
    ELSE NaN

normalizeDate(value) ==
    IF ~Truthy(value) THEN Undef
    ELSE IF DateValue(value.s).t = "NaN" THEN Undef
    ELSE DateValue(value.s)

\* the property key a string value names
KeyOf(v) == Concat(v.s)

\* the name filter taking the terms as they are given, blanks included
PassName_untrimmed(model, query) ==
    LET raw == AsList(Get(query, "name"))
        terms == [i \in 1..Len(raw) |-> toLowerCase(raw[i].s)]
        nameFilters == SelectSeq(terms, LAMBDA n : Len(n) > 0)
    IN  \/ ~Truthy(Get(query, "name"))
        \/ Len(nameFilters) = 0
        \/ \E i \in 1..Len(nameFilters) :
              \/ Includes(toLowerCase(Get(model, "name").s), nameFilters[i])
              \/ Includes(toLowerCase(Get(model, "value").s), nameFilters[i])
              \/ /\ Get(model, "alias").t = "string"
                 /\ Includes(toLowerCase(Get(model, "alias").s), nameFilters[i])

PassName(model, query) ==
    LET raw == AsList(Get(query, "name"))
        terms == [i \in 1..Len(raw) |-> toLowerCase(Trim(raw[i].s))]
        nameFilters == SelectSeq(terms, LAMBDA n : Len(n) > 0)
    IN  \/ ~Truthy(Get(query, "name"))
        \/ Len(nameFilters) = 0
        \/ \E i \in 1..Len(nameFilters) :
              \/ Includes(toLowerCase(Get(model, "name").s), nameFilters[i])
              \/ Includes(toLowerCase(Get(model, "value").s), nameFilters[i])
              \/ /\ Get(model, "alias").t = "string"
                 /\ Includes(toLowerCase(Get(model, "alias").s), nameFilters[i])

PassProvider(model, query) ==
    LET providerFilters == AsList(Get(query, "provider"))
    IN  \/ ~Truthy(Get(query, "provider"))
        \/ \E i \in 1..Len(providerFilters) : providerFilters[i] = Get(model, "provider")

\* the capability filter asking for some listed capability, not for every one
PassCapability_some(model, query) ==
    LET capabilityFilters == AsList(Get(query, "capability"))
    IN  \/ ~Truthy(Get(query, "capability"))
        \/ \E i \in 1..Len(capabilityFilters) :
              Truthy(Get(Get(model, "capabilities"), KeyOf(capabilityFilters[i])))

PassCapability(model, query) ==
    LET capabilityFilters == AsList(Get(query, "capability"))
    IN  \/ ~Truthy(Get(query, "capability"))
        \/ \A i \in 1..Len(capabilityFilters) :
              Truthy(Get(Get(model, "capabilities"), KeyOf(capabilityFilters[i])))

PassStatus(model, query) ==
    LET statusFilters == AsList(Get(query, "status"))
    IN  \/ ~Truthy(Get(query, "status"))
        \/ /\ Truthy(Get(model, "status"))
           /\ \E i \in 1..Len(statusFilters) : statusFilters[i] = Get(model, "status")

\* the release date filter leaving out the dates equal to a bound
PassReleaseDate_exclusive(model, query) ==
    LET releaseFrom == normalizeDate(Get(query, "releaseDateFrom"))
        releaseTo == normalizeDate(Get(query, "releaseDateTo"))
        modelDate == normalizeDate(Get(model, "releaseDate"))
    IN  \/ releaseFrom.t = "undefined" /\ releaseTo.t = "undefined"
        \/ /\ modelDate.t # "undefined"
           /\ ~(releaseFrom.t # "undefined" /\ modelDate.n <= releaseFrom.n)
           /\ ~(releaseTo.t # "undefined" /\ modelDate.n >= releaseTo.n)

PassReleaseDate(model, query) ==
    LET releaseFrom == normalizeDate(Get(query, "releaseDateFrom"))
        releaseTo == normalizeDate(Get(query, "releaseDateTo"))
        modelDate == normalizeDate(Get(model, "releaseDate"))
    IN  \/ releaseFrom.t = "undefined" /\ releaseTo.t = "undefined"
        \/ /\ modelDate.t # "undefined"
           /\ ~(releaseFrom.t # "undefined" /\ modelDate.n < releaseFrom.n)
           /\ ~(releaseTo.t # "undefined" /\ modelDate.n > releaseTo.n)

\* a >= b on numbers: false when either side is NaN
Geq(a, b) == a.t = "number" /\ b.t = "number" /\ a.n >= b.n

\* the minIq filter comparing the iq as it is, absent or not
PassMinIq_unsafe(model, query) ==
    \/ Get(query, "minIq").t = "undefined"
    \/ Geq(Get(model, "iq"), Get(query, "minIq"))

PassMinIq(model, query) ==
    \/ Get(query, "minIq").t = "undefined"
    \/ Geq(Coalesce(Get(model, "iq"), Num(0)), Get(query, "minIq"))

PassMinSpeed(model, query) ==
    \/ Get(query, "minSpeed").t = "undefined"
    \/ Geq(Coalesce(Get(model, "speed"), Num(0)), Get(query, "minSpeed"))

PassMinContextWindow(model, query) ==
    \/ Get(query, "minContextWindow").t = "undefined"
    \/ Geq(Coalesce(Get(Get(model, "metrics"), "contextWindow"), Num(0)),
           Get(query, "minContextWindow"))

PassMode(model, query) ==
    \/ ~Truthy(Get(query, "mode"))
    \/ Get(Get(model, "config"), "mode") = Get(query, "mode")

\* filterModels returning the matching models last first
filterModels_reversed(models, query) ==
    LET pass == SelectSeq(models, LAMBDA m :
                    /\ PassName(m, query) /\ PassProvider(m, query)
                    /\ PassCapability(m, query) /\ PassStatus(m, query)
                    /\ PassReleaseDate(m, query) /\ PassMinIq(m, query)
                    /\ PassMinSpeed(m, query) /\ PassMinContextWindow(m, query)
                    /\ PassMode(m, query))
    IN  [i \in 1..Len(pass) |-> pass[Len(pass) + 1 - i]]

\* filterModels whose provider filter starts again from the models given
filterModels_restart(models, query) ==
    LET f2 == SelectSeq(models, LAMBDA m : IF Truthy(Get(query, "provider"))
                                            THEN PassProvider(m, query)
                                            ELSE PassName(m, query))
        f3 == SelectSeq(f2, LAMBDA m : PassCapability(m, query))
        f4 == SelectSeq(f3, LAMBDA m : PassStatus(m, query))
        f5 == SelectSeq(f4, LAMBDA m : PassReleaseDate(m, query))
        f6 == SelectSeq(f5, LAMBDA m : PassMinIq(m, query))
        f7 == SelectSeq(f6, LAMBDA m : PassMinSpeed(m, query))
        f8 == SelectSeq(f7, LAMBDA m : PassMinContextWindow(m, query))
    IN  SelectSeq(f8, LAMBDA m : PassMode(m, query))

filterModels(models, query) ==
    LET f1 == SelectSeq(models, LAMBDA m : PassName(m, query))
        f2 == SelectSeq(f1, LAMBDA m : PassProvider(m, query))
        f3 == SelectSeq(f2, LAMBDA m : PassCapability(m, query))
        f4 == SelectSeq(f3, LAMBDA m : PassStatus(m, query))
        f5 == SelectSeq(f4, LAMBDA m : PassReleaseDate(m, query))
        f6 == SelectSeq(f5, LAMBDA m : PassMinIq(m, query))
        f7 == SelectSeq(f6, LAMBDA m : PassMinSpeed(m, query))
        f8 == SelectSeq(f7, LAMBDA m : PassMinContextWindow(m, query))
    IN  SelectSeq(f8, LAMBDA m : PassMode(m, query))

(***************************************************************************)
(* Conditional delivery (server/src/utils.ts).                             *)
(***************************************************************************)
CACHE_HEADER ==
    <<"public, max-age=600, s-maxage=86400, stale-while-revalidate=604800, stale-if-error=604800">>

\* Number(text) for texts of decimal digits; a blank text is 0
ToNumber(cs) ==
    LET body == Trim(cs)
    IN  IF body = <<>> THEN Num(0)
        ELSE IF \A i \in 1..Len(body) : IsDigit(body[i]) THEN Num(DigitsValue(body, 0))
        ELSE NaN

\* parseScore handing on whatever Number() gives
parseScore_unchecked(value) ==
    IF ~Truthy(value) THEN Undef ELSE ToNumber(value.s)

parseScore(value) ==
    IF ~Truthy(value) THEN Undef
    ELSE IF ToNumber(value.s).t = "NaN" THEN Undef
    ELSE ToNumber(value.s)

RECURSIVE StripLeadingQuotes(_)
StripLeadingQuotes(cs) ==
    IF cs # <<>> /\ Head(cs) = "\"" THEN StripLeadingQuotes(Tail(cs)) ELSE cs

RECURSIVE StripTrailingQuotes(_)
StripTrailingQuotes(cs) ==
    IF cs # <<>> /\ cs[Len(cs)] = "\""
    THEN StripTrailingQuotes(SubSeq(cs, 1, Len(cs) - 1)) ELSE cs

\* text.replace(/^"+|"+$/g, '')
StripQuotes(cs) == StripTrailingQuotes(StripLeadingQuotes(cs))

\* normalizeEtagValue keeping the weak marker
normalizeEtagValue_weak(etag) ==
    LET trimmed == Trim(etag)
    IN  IF trimmed = <<"*">> THEN <<"*">> ELSE StripQuotes(trimmed)

normalizeEtagValue(etag) ==
    LET trimmed == Trim(etag)
        withoutWeakPrefix == IF StartsWith(trimmed, <<"W", "/">>)
                             THEN SliceFrom(trimmed, 2) ELSE trimmed
    IN  IF trimmed = <<"*">> THEN <<"*">> ELSE StripQuotes(withoutWeakPrefix)

etagMatches(ifNoneMatch, currentEtag) ==
    IF ~Truthy(ifNoneMatch) THEN FALSE
    ELSE LET normalizedCurrent == normalizeEtagValue(currentEtag)
             pieces == Split(ifNoneMatch.s, ",")
             trimmedPieces == [i \in 1..Len(pieces) |-> Trim(pieces[i])]
             candidates == SelectSeq(trimmedPieces, LAMBDA c : Len(c) > 0)
         IN  \E i \in 1..Len(candidates) :
                \/ candidates[i] = <<"*">>
                \/ normalizeEtagValue(candidates[i]) = normalizedCurrent

applyCachingHeaders(set, etag) ==
    [set EXCEPT !.headers = Set(Set(@, "cache-control", Str(CACHE_HEADER)), "etag", Str(etag))]

\* handleConditionalRequest leaving the status alone on a match
handleConditionalRequest_no304(headers, set, etag) ==
    [matched |-> etagMatches(Get(headers, "if-none-match"), etag),
     set |-> applyCachingHeaders(set, etag)]

\* handleConditionalRequest setting the headers on the 200 path only
handleConditionalRequest_bare304(headers, set, etag) ==
    IF etagMatches(Get(headers, "if-none-match"), etag)
    THEN [matched |-> TRUE, set |-> [set EXCEPT !.status = 304]]
    ELSE [matched |-> FALSE, set |-> applyCachingHeaders(set, etag)]

\* the boolean the function returns and the response toolkit it leaves
handleConditionalRequest(headers, set, etag) ==
    IF etagMatches(Get(headers, "if-none-match"), etag)
    THEN [matched |-> TRUE, set |-> applyCachingHeaders([set EXCEPT !.status = 304], etag)]
    ELSE [matched |-> FALSE, set |-> applyCachingHeaders(set, etag)]

(***************************************************************************)
(* The stored manifest and the response bodies.                            *)
(***************************************************************************)
\* JSON.parse(JSON.stringify(v)): the properties whose value is undefined
\* are gone, the others keep their order
RECURSIVE RoundTripProps(_)
RECURSIVE JsonRoundTrip(_)
RoundTripProps(props) ==
    IF props = <<>> THEN <<>>
    ELSE IF Head(props)[2].t = "undefined" THEN RoundTripProps(Tail(props))
    ELSE <<<<Head(props)[1], JsonRoundTrip(Head(props)[2])>>>> \o RoundTripProps(Tail(props))

JsonRoundTrip(v) == IF v.t = "object" THEN Obj(RoundTripProps(v.o)) ELSE v

ManifestRoundTrip(m) ==
    [version |-> m.version,
     etag |-> m.etag,
     generatedAt |-> m.generatedAt,
     providers |-> [i \in 1..Len(m.providers) |-> JsonRoundTrip(m.providers[i])],
     models |-> [i \in 1..Len(m.models) |-> JsonRoundTrip(m.models[i])]]

StringifyManifest(m) ==
    <<"{", "\"", "version", "\"", ":">> \o Stringify(Str(m.version))
    \o <<",", "\"", "etag", "\"", ":">> \o Stringify(Str(m.etag))
    \o <<",", "\"", "generatedAt", "\"", ":">> \o Stringify(Str(m.generatedAt))
    \o <<",", "\"", "providers", "\"", ":">> \o StringifyArray(m.providers)
    \o <<",", "\"", "models", "\"", ":">> \o StringifyArray(m.models)
    \o <<"}">>

StringifyVersion(m) ==
    <<"{", "\"", "version", "\"", ":">> \o Stringify(Str(m.version))
    \o <<",", "\"", "etag", "\"", ":">> \o Stringify(Str(m.etag))
    \o <<",", "\"", "generatedAt", "\"", ":">> \o Stringify(Str(m.generatedAt))
    \o <<"}">>

(***************************************************************************)
(* State.                                                                  *)
(***************************************************************************)
VARIABLES
    \* the server: the clock, env.AA_API_KEY being set, the dataset the
    \* upstream answered last and whether its last answer was ok, the value
    \* under the KV key
    \* 'manifest' (<<>> when there is none), the resolution runs that
    \* succeeded so far, the outcome of the last run and the last response
    clock, apiKey, upstream, upstreamOk, kv, runs, lastRun, resp,
    \* the canonicaliser on its own: the arrays as first given, the arrays as
    \* given now, the tags of both and the rearrangements made in between
    providers0, models0, providers, models, tags0, tags, shuffles, rekeys,
    \* etagMatches on its own: the header, the current etag and the answer
    ifNoneMatch, currentEtag, matches,
    \* the override resolver on its own: its three arguments and its result
    baseProviders, baseModels, overrides, resolved,
    \* filterModels on its own: the models, the query and the models returned
    catalog, asked, answer,
    \* the scoring functions on their own: two measurements and their scores
    measured, scored,
    \* getAllowedOrigin on its own: env.ALLOWED_ORIGINS, the Origin header of
    \* the request and the answer (<<>> before the check)
    allowedOrigins, origin, allowed,
    \* the readers of the store on their own: the manifest a resolution run
    \* put under the manifest key (<<>> when none did), what the KV binding
    \* returns for the key and the result of the last read
    written, stored, reply,
    \* the client: the manifest the server holds, the client's cache, its
    \* autoRefreshInterval, the persistence initialisation being over, a
    \* refresh timer being set, stopAutoRefresh() or destroy() having
    \* returned, the call that is returning with its result, and the
    \* manifests the resolution runs of the server produce over time
    served, cache, autoRefreshInterval, ready, refreshTimer, stopped, called, releases

serverVars == <<clock, apiKey, upstream, upstreamOk, kv, runs, lastRun, resp>>
tagVars == <<providers0, models0, providers, models, tags0, tags, shuffles, rekeys>>
etagVars == <<ifNoneMatch, currentEtag, matches>>
overrideVars == <<baseProviders, baseModels, overrides, resolved>>
filterVars == <<catalog, asked, answer>>
scoreVars == <<measured, scored>>
corsVars == <<allowedOrigins, origin, allowed>>
storeVars == <<written, stored, reply>>
clientVars ==
    <<served, cache, autoRefreshInterval, ready, refreshTimer, stopped, called, releases>>
restVars == <<scoreVars, corsVars, storeVars, clientVars>>
vars == <<serverVars, tagVars, etagVars, overrideVars, filterVars, restVars>>

NoTags == [etag |-> <<>>, version |-> <<>>]
NoResolved == [done |-> FALSE, providers |-> <<>>, models |-> <<>>]
NoOverrides == [providers |-> <<>>, models |-> <<>>]
NoResponse ==
    [endpoint |-> "none", ifNoneMatch |-> Undef, providerId |-> <<>>, loaded |-> <<>>,
     status |-> 0, headers |-> Obj(<<>>), hasBody |-> FALSE, body |-> <<>>,
     query |-> Undef]

ServerIdle ==
    /\ clock = 0 /\ apiKey = FALSE /\ upstream = <<>> /\ upstreamOk = FALSE
    /\ kv = <<>> /\ runs = {} /\ lastRun = "none" /\ resp = NoResponse
TagsIdle ==
    /\ providers0 = <<>> /\ models0 = <<>> /\ providers = <<>> /\ models = <<>>
    /\ tags0 = NoTags /\ tags = NoTags /\ shuffles = 0 /\ rekeys = 0
EtagIdle == ifNoneMatch = Undef /\ currentEtag = <<>> /\ matches = "none"
OverridesIdle ==
    /\ baseProviders = <<>> /\ baseModels = <<>>
    /\ overrides = NoOverrides /\ resolved = NoResolved
FilterIdle == catalog = <<>> /\ asked = Undef /\ answer = <<>>
ScoreIdle == measured = <<>> /\ scored = <<>>
CorsIdle == allowedOrigins = Undef /\ origin = Undef /\ allowed = <<>>
NoReply ==
    [from |-> "none", data |-> <<>>, error |-> <<>>, cached |-> FALSE,
     status |-> 0, body |-> <<>>]
StoreIdle == written = <<>> /\ stored = Undef /\ reply = NoReply
NoCache == [manifest |-> <<>>, version |-> <<>>, etag |-> <<>>, generatedAt |-> <<>>]
NoCall ==
    [op |-> "none", by |-> "none", reached |-> FALSE, fetched |-> <<>>, notified |-> 0,
     result |-> FALSE, query |-> Undef, data |-> <<>>, error |-> FALSE, cached |-> FALSE]
ClientIdle ==
    /\ served = <<>> /\ cache = NoCache /\ autoRefreshInterval = 0 /\ ready = FALSE
    /\ refreshTimer = FALSE /\ stopped = FALSE /\ called = NoCall
    /\ releases = {}
RestIdle == ScoreIdle /\ CorsIdle /\ StoreIdle /\ ClientIdle

(***************************************************************************)
(* The server (server/src/app.ts, server/src/cron.ts).                     *)
(***************************************************************************)
AA_gpt5 ==
    Obj(<< <<"id", Str(<<"aa-1">>)>>,
           <<"name", Str(<<"G", "P", "T", "-", "5", " ", "(", "h", "i", ")">>)>>,
           <<"slug", Str(s_gpt5)>>,
           <<"release_date", Str(<<"2", "0", "2", "5", "-", "0", "8", "-", "0", "7">>)>>,
           <<"model_creator", Obj(<< <<"id", Str(<<"c-1">>)>>,
                                     <<"name", Str(<<"O", "p", "e", "n", "A", "I">>)>>,
                                     <<"slug", Str(s_openai)>> >>)>>,
           <<"evaluations", Obj(<< <<"artificial_analysis_intelligence_index", Num(68)>>,
                                   <<"artificial_analysis_coding_index", Num(50)>>,
                                   <<"artificial_analysis_math_index", Num(90)>> >>)>>,
           <<"pricing", Obj(<< <<"price_1m_blended_3_to_1", Num(3)>>,
                               <<"price_1m_input_tokens", Num(1)>>,
                               <<"price_1m_output_tokens", Num(10)>> >>)>>,
           <<"median_output_tokens_per_second", Num(120)>> >>)

AA_grok ==
    Obj(<< <<"id", Str(<<"aa-2">>)>>,
           <<"name", Str(<<"G", "r", "o", "k">>)>>,
           <<"slug", Str(s_grok)>>,
           <<"model_creator", Obj(<< <<"id", Str(<<"c-2">>)>>,
                                     <<"name", Str(<<"x", "A", "I">>)>>,
                                     <<"slug", Str(s_x_ai)>> >>)>> >>)

AA_glm ==
    Obj(<< <<"id", Str(<<"aa-3">>)>>,
           <<"name", Str(<<"G", "L", "M">>)>>,
           <<"slug", Str(s_glm)>>,
           <<"model_creator", Obj(<< <<"id", Str(<<"c-3">>)>>,
                                     <<"name", Str(<<"Z", "a", "i">>)>>,
                                     <<"slug", Str(s_zai)>> >>)>>,
           <<"evaluations", Obj(<< <<"artificial_analysis_intelligence_index", Num(40)>> >>)>>,
           <<"median_output_tokens_per_second", Num(30)>> >>)

\* an upstream entry that repeats the (creator, slug) pair of AA_gpt5
AA_gpt5b ==
    Obj(<< <<"id", Str(<<"aa-9">>)>>,
           <<"name", Str(<<"G", "P", "T", "-", "5">>)>>,
           <<"slug", Str(s_gpt5)>>,
           <<"model_creator", Obj(<< <<"id", Str(<<"c-1">>)>>,
                                     <<"name", Str(<<"O", "p", "e", "n", "A", "I">>)>>,
                                     <<"slug", Str(s_openai)>> >>)>>,
           <<"evaluations", Obj(<< <<"artificial_analysis_intelligence_index", Num(30)>> >>)>> >>)

\* the upstream datasets of the model
Datasets ==
    { <<AA_gpt5, AA_grok>>, <<AA_grok, AA_gpt5>>, <<AA_glm, AA_gpt5, AA_grok>>,
      <<AA_gpt5b, AA_gpt5>> }

\* the If-None-Match headers a client may send: none, an empty one, the
\* wildcard, an etag the server never issued, and the etags it issued, as
\* they are, marked weak and at the end of a list
HeaderValues ==
    LET known == {r.manifest.etag : r \in runs}
    IN  {Undef, Str(<<>>), Str(<<"*">>), Str(<<"\"", "0", "\"">>)}
        \cup {Str(e) : e \in known}
        \cup {Str(<<"W", "/">> \o e) : e \in known}
        \cup {Str(<<"\"", "0", "\"", ",", " ">> \o e) : e \in known}

\* the If-None-Match headers sent to /v1/models/search, which does not read
\* the header: none, the wildcard and the etags the server issued
SearchHeaderValues ==
    {Undef, Str(<<"*">>)} \cup {Str(r.manifest.etag) : r \in runs}

\* the query strings of /v1/models/search
SearchQueries ==
    { Obj(<<>>),
      Obj(<< <<"name", Str(<<"g", "p", "t">>)>> >>),
      Obj(<< <<"provider", Str(s_openai)>>, <<"capability", Str(<<"vision">>)>> >>),
      Obj(<< <<"minIq", Str(<<"4">>)>> >>),
      Obj(<< <<"minIq", Str(<<"a", "b", "c">>)>> >>),
      Obj(<< <<"name", Str(<<"g", "p", "t">>)>>,
             <<"minSpeed", Str(<<"f", "a", "s", "t">>)>> >>),
      Obj(<< <<"provider", Str(s_openai)>>,
             <<"minContextWindow", Str(<<"b", "i", "g">>)>>,
             <<"minIq", Str(<<"1">>)>> >>),
      Obj(<< <<"minContextWindow", Str(<<"1", "0", "0", "0">>)>>,
             <<"releaseDateFrom", Str(<<"2", "0", "2", "5", "-", "0", "1", "-", "0", "1">>)>> >>) }

\* the :providerId path parameters of the requests
ProviderIds == {s_openai, s_meta}

InitServer ==
    /\ clock = 0
    /\ apiKey \in BOOLEAN
    /\ upstream = <<>>
    /\ upstreamOk = FALSE
    /\ kv = <<>>
    /\ runs = {}
    /\ lastRun = "none"
    /\ resp = NoResponse
    /\ TagsIdle
    /\ EtagIdle
    /\ OverridesIdle
    /\ FilterIdle
    /\ RestIdle

\* runCronJob writing nothing but dropping the stored value when it fails
runCronJob_dropsOnFailure ==
    /\ resp = NoResponse
    /\ clock < MaxRuns
    /\ clock' = clock + 1
    /\ IF ~apiKey
       THEN /\ lastRun' = "failed"
            /\ kv' = <<>>
            /\ UNCHANGED <<upstream, upstreamOk, runs>>
       ELSE \E ok \in BOOLEAN, parses \in BOOLEAN, aaData \in Datasets :
               /\ upstreamOk' = ok
               /\ IF ~ok \/ ~parses
                  THEN /\ lastRun' = "failed"
                       /\ kv' = <<>>
                       /\ UNCHANGED <<upstream, runs>>
                  ELSE LET manifest == fetchAndTransformManifest(aaData, clock)
                       IN  /\ upstream' = aaData
                           /\ kv' = <<ManifestRoundTrip(manifest)>>
                           /\ runs' = runs \cup {[data |-> aaData, manifest |-> manifest]}
                           /\ lastRun' = "ok"
    /\ UNCHANGED <<apiKey, resp, tagVars, etagVars, overrideVars, filterVars, restVars>>

\* runCronJob, from the scheduled handler or from /cron/trigger; the answer
\* of the upstream to the fetch is an input of the run: whether it is ok,
\* whether its body parses into a dataset (response.json() and
\* aaData.data.map throw when it does not) and the dataset
runCronJob ==
    /\ resp = NoResponse
    /\ clock < MaxRuns
    /\ clock' = clock + 1
    /\ IF ~apiKey
       THEN /\ lastRun' = "failed"
            /\ UNCHANGED <<upstream, upstreamOk, kv, runs>>
       ELSE \E ok \in BOOLEAN, parses \in BOOLEAN, aaData \in Datasets :
               /\ upstreamOk' = ok
               /\ IF ~ok \/ ~parses
                  THEN /\ lastRun' = "failed"
                       /\ UNCHANGED <<upstream, kv, runs>>
                  ELSE LET manifest == fetchAndTransformManifest(aaData, clock)
                       IN  /\ upstream' = aaData
                           /\ kv' = <<ManifestRoundTrip(manifest)>>
                           /\ runs' = runs \cup {[data |-> aaData, manifest |-> manifest]}
                           /\ lastRun' = "ok"
    /\ UNCHANGED <<apiKey, resp, tagVars, etagVars, overrideVars, filterVars, restVars>>

\* the response of a handler whose loadManifest threw
ErrorResponse(endpoint, inm, providerId) ==
    [endpoint |-> endpoint, ifNoneMatch |-> inm, providerId |-> providerId,
     loaded |-> <<>>, status |-> 500, headers |-> Obj(<<>>), hasBody |-> TRUE,
     body |-> <<"Manifest not found in KV storage">>, query |-> Undef]

\* the response of a handler that ran to its end: the body is the JSON text
\* of the value returned, and there is none when the handler returned nothing
Response(endpoint, inm, providerId, manifest, set, returned, value) ==
    [endpoint |-> endpoint, ifNoneMatch |-> inm, providerId |-> providerId,
     loaded |-> <<manifest>>, status |-> set.status, headers |-> set.headers,
     hasBody |-> returned, body |-> IF returned THEN value ELSE <<>>,
     query |-> Undef]

\* the response toolkit a handler starts with
NewSet == [status |-> 200, headers |-> Obj(<<>>)]

\* manifest.models.filter(model => model.provider === params.providerId)
ModelsOfProvider(manifest, providerId) ==
    SelectSeq(manifest.models, LAMBDA m : Get(m, "provider") = Str(providerId))

\* a handler of the form: load the manifest, return nothing when
\* handleConditionalRequest says so, return the value otherwise; values is
\* what the handler computes from the manifest, <<>> when there is none
Conditional(endpoint, inm, providerId, values) ==
    IF kv = <<>> THEN ErrorResponse(endpoint, inm, providerId)
    ELSE LET manifest == kv[1]
             headers == Obj(<< <<"if-none-match", inm>> >>)
             r == handleConditionalRequest(headers, NewSet, manifest.etag)
         IN  Response(endpoint, inm, providerId, manifest, r.set, ~r.matched,
                      values[1])

GetManifest ==
    /\ resp = NoResponse
    /\ LET values == IF kv = <<>> THEN <<>> ELSE <<StringifyManifest(kv[1])>>
       IN  \E inm \in HeaderValues :
              resp' = Conditional("/v1/manifest", inm, <<>>, values)
    /\ UNCHANGED <<clock, apiKey, upstream, upstreamOk, kv, runs, lastRun,
                   tagVars, etagVars, overrideVars, filterVars, restVars>>

GetProviders ==
    /\ resp = NoResponse
    /\ LET values == IF kv = <<>> THEN <<>> ELSE <<StringifyArray(kv[1].providers)>>
       IN  \E inm \in HeaderValues :
              resp' = Conditional("/v1/providers", inm, <<>>, values)
    /\ UNCHANGED <<clock, apiKey, upstream, upstreamOk, kv, runs, lastRun,
                   tagVars, etagVars, overrideVars, filterVars, restVars>>

GetProviderModels ==
    /\ resp = NoResponse
    /\ \E providerId \in ProviderIds :
          LET values == IF kv = <<>> THEN <<>>
                        ELSE <<StringifyArray(ModelsOfProvider(kv[1], providerId))>>
          IN  \E inm \in HeaderValues :
                 resp' = Conditional("/v1/providers/:providerId/models", inm, providerId,
                                     values)
    /\ UNCHANGED <<clock, apiKey, upstream, upstreamOk, kv, runs, lastRun,
                   tagVars, etagVars, overrideVars, filterVars, restVars>>

GetVersion ==
    /\ resp = NoResponse
    /\ LET values == IF kv = <<>> THEN <<>> ELSE <<StringifyVersion(kv[1])>>
       IN  \E inm \in HeaderValues :
              resp' = Conditional("/v1/version", inm, <<>>, values)
    /\ UNCHANGED <<clock, apiKey, upstream, upstreamOk, kv, runs, lastRun,
                   tagVars, etagVars, overrideVars, filterVars, restVars>>

\* the ModelSearchQuery the handler builds from the query string
SearchQueryOf(query) ==
    LET minContextWindow == IF Truthy(Get(query, "minContextWindow"))
                            THEN ToNumber(Get(query, "minContextWindow").s) ELSE Undef
        normalizedContextWindow == IF minContextWindow.t = "NaN" THEN Undef
                                   ELSE minContextWindow
    IN  Obj(<< <<"name", Get(query, "name")>>,
               <<"provider", Get(query, "provider")>>,
               <<"capability", Get(query, "capability")>>,
               <<"status", Get(query, "status")>>,
               <<"releaseDateFrom", Get(query, "releaseDateFrom")>>,
               <<"releaseDateTo", Get(query, "releaseDateTo")>>,
               <<"minIq", parseScore(Get(query, "minIq"))>>,
               <<"minSpeed", parseScore(Get(query, "minSpeed"))>>,
               <<"minContextWindow", normalizedContextWindow>>,
               <<"mode", Get(query, "mode")>> >>)

SearchModels ==
    /\ resp = NoResponse
    /\ \E query \in SearchQueries :
          LET values == IF kv = <<>> THEN <<>>
                        ELSE <<StringifyArray(filterModels(kv[1].models,
                                                           SearchQueryOf(query)))>>
          IN  \E inm \in SearchHeaderValues :
                 resp' = [(IF kv = <<>> THEN ErrorResponse("/v1/models/search", inm, <<>>)
                           ELSE LET manifest == kv[1]
                                    set == applyCachingHeaders(NewSet, manifest.etag)
                                IN  Response("/v1/models/search", inm, <<>>, manifest, set,
                                             TRUE, values[1]))
                          EXCEPT !.query = query]
    /\ UNCHANGED <<clock, apiKey, upstream, upstreamOk, kv, runs, lastRun,
                   tagVars, etagVars, overrideVars, filterVars, restVars>>

\* the response leaves the server; the next request can be taken
Send ==
    /\ resp # NoResponse
    /\ resp' = NoResponse
    /\ UNCHANGED <<clock, apiKey, upstream, upstreamOk, kv, runs, lastRun,
                   tagVars, etagVars, overrideVars, filterVars, restVars>>

NextServer ==
    \/ runCronJob
    \/ GetManifest
    \/ GetProviders
    \/ GetProviderModels
    \/ GetVersion
    \/ SearchModels
    \/ Send

Spec == InitServer /\ [][NextServer]_vars

(***************************************************************************)
(* What a validator list says, stated on the text of the header.           *)
(***************************************************************************)
\* the part of a text from its first to its last character outside skip
Inner(cs, skip) ==
    LET keep == {i \in 1..Len(cs) : cs[i] \notin skip}
    IN  IF keep = {} THEN <<>>
        ELSE SubSeq(cs, CHOOSE i \in keep : \A j \in keep : i <= j,
                        CHOOSE i \in keep : \A j \in keep : i >= j)

\* the opaque value a validator carries: without the blanks around it,
\* the weak marker and the quotes
OpaqueValue(cs) ==
    LET bare == Inner(cs, {" "})
        strong == IF Len(bare) >= 2 /\ bare[1] = "W" /\ bare[2] = "/"
                  THEN SubSeq(bare, 3, Len(bare)) ELSE bare
    IN  Inner(strong, {"\""})

\* the validators of a header: the stretches between the commas
Validators(cs) ==
    {SubSeq(cs, i, j) : <<i, j>> \in
        {p \in (1..(Len(cs) + 1)) \X (0..Len(cs)) :
            /\ p[2] >= p[1] - 1
            /\ \A k \in p[1]..p[2] : cs[k] # ","
            /\ (p[1] = 1 \/ cs[p[1] - 1] = ",")
            /\ (p[2] = Len(cs) \/ cs[p[2] + 1] = ",")}}

\* some validator of the header is the wildcard or carries the opaque
\* value of the etag
NamesEtag(header, etag) ==
    /\ header.t = "string"
    /\ \E v \in Validators(header.s) :
          /\ Inner(v, {" "}) # <<>>
          /\ \/ Inner(v, {" "}) = <<"*">>
             \/ OpaqueValue(v) = OpaqueValue(etag)

ConditionalEndpoints ==
    {"/v1/manifest", "/v1/providers", "/v1/providers/:providerId/models", "/v1/version"}

\* the full representation an endpoint serves for a manifest
FullBody(r) ==
    LET m == r.loaded[1]
    IN  CASE r.endpoint = "/v1/manifest" -> StringifyManifest(m)
          [] r.endpoint = "/v1/providers" -> StringifyArray(m.providers)
          [] r.endpoint = "/v1/providers/:providerId/models" ->
                StringifyArray(SelectSeq(m.models,
                    LAMBDA x : Get(x, "provider").s = r.providerId))
          [] r.endpoint = "/v1/version" -> StringifyVersion(m)
          [] OTHER -> <<>>

\* C4: on the four conditional endpoints, If-None-Match equal to the stored
\* etag gives 304 without a body, If-None-Match: * gives 304 without a body,
\* and an absent header or one that names neither gives 200 with the full body.
C4_ConditionalDecision ==
    (resp.endpoint \in ConditionalEndpoints /\ resp.loaded # <<>>)
    => LET etag == resp.loaded[1].etag
       IN  /\ resp.ifNoneMatch = Str(etag) => resp.status = 304 /\ ~resp.hasBody
           /\ resp.ifNoneMatch = Str(<<"*">>) => resp.status = 304 /\ ~resp.hasBody
           /\ ~NamesEtag(resp.ifNoneMatch, etag)
              => /\ resp.status = 200
                 /\ resp.hasBody
                 /\ resp.body = FullBody(resp)

\* a 304 for the stored etag on the per-provider endpoint
C4_Witness ==
    /\ resp.endpoint = "/v1/providers/:providerId/models"
    /\ resp.loaded # <<>>
    /\ resp.ifNoneMatch = Str(resp.loaded[1].etag)
    /\ resp.status = 304

\* C6: every 200 or 304 response of the five endpoints that serve
\* manifest-derived data carries the fixed Cache-Control value and the etag
\* of the manifest loaded for the request.
C6_CachingHeaders ==
    (resp.endpoint \in ConditionalEndpoints \cup {"/v1/models/search"}
        /\ resp.status \in {200, 304})
    => /\ resp.loaded # <<>>
       /\ Get(resp.headers, "cache-control") = Str(CACHE_HEADER)
       /\ Get(resp.headers, "etag") = Str(resp.loaded[1].etag)

\* a 304 of /v1/version that carries both headers
C6_Witness ==
    /\ resp.endpoint = "/v1/version"
    /\ resp.status = 304
    /\ HasKey(resp.headers, "etag")
    /\ HasKey(resp.headers, "cache-control")

(***************************************************************************)
(* etagMatches on its own.                                                 *)
(***************************************************************************)
\* the validators the headers of this specification are made of
ValidatorTexts ==
    { <<"\"", "a", "\"">>,
      <<"W", "/", "\"", "a", "\"">>,
      <<"\"", "b", "\"">>,
      <<"*">>,
      <<>>,
      <<" ">>,
      <<" ", "\"", "a", "\"", " ">>,
      <<"a">>,
      <<"\"", "\"", "a", "\"">>,
      <<"W", "/", " ", "\"", "a", "\"">>,
      <<"w", "/", "\"", "a", "\"">>,
      <<" ", "W", "/", "\"", "b", "\"">>,
      <<"\"", "\"">> }

\* the current etags of this specification
EtagTexts ==
    { <<"\"", "a", "\"">>,
      <<"W", "/", "\"", "a", "\"">>,
      <<"\"", "b", "\"">>,
      <<"a">>,
      <<" ", "\"", "a", "\"">>,
      <<"\"", "\"">>,
      <<"*">> }

\* Array.prototype.join(',')
RECURSIVE Join(_)
Join(parts) ==
    IF parts = <<>> THEN <<>>
    ELSE IF Len(parts) = 1 THEN parts[1]
    ELSE parts[1] \o <<",">> \o Join(Tail(parts))

HeaderTexts ==
    {Join(parts) : parts \in UNION {[1..n -> ValidatorTexts] : n \in 0..MaxTokens}}

InitEtag ==
    /\ ifNoneMatch \in {Undef} \cup {Str(h) : h \in HeaderTexts}
    /\ currentEtag \in EtagTexts
    /\ matches = "none"
    /\ ServerIdle
    /\ TagsIdle
    /\ OverridesIdle
    /\ FilterIdle
    /\ RestIdle

\* the server evaluates etagMatches(headers['if-none-match'], etag)
EvalEtagMatches ==
    /\ matches = "none"
    /\ matches' = IF etagMatches(ifNoneMatch, currentEtag) THEN "yes" ELSE "no"
    /\ UNCHANGED <<ifNoneMatch, currentEtag,
                   serverVars, tagVars, overrideVars, filterVars, restVars>>

NextEtag == EvalEtagMatches

SpecEtag == InitEtag /\ [][NextEtag]_vars

\* a text with the weak marker put in front, or taken away when it has one
ToggleWeak(cs) ==
    IF Len(cs) >= 2 /\ cs[1] = "W" /\ cs[2] = "/"
    THEN SubSeq(cs, 3, Len(cs)) ELSE <<"W", "/">> \o cs

\* C5: etagMatches is true exactly when some non-blank validator of the
\* header is * or carries the opaque value of the current etag, and marking
\* the current etag, or a header made of one validator, weak or strong does
\* not change the answer.
C5_EtagMatches ==
    matches # "none"
    => /\ (matches = "yes") <=> NamesEtag(ifNoneMatch, currentEtag)
       /\ (Trim(currentEtag) = currentEtag /\ currentEtag # <<"*">>
              /\ Trim(ToggleWeak(currentEtag)) = ToggleWeak(currentEtag))
          => (matches = "yes") <=> etagMatches(ifNoneMatch, ToggleWeak(currentEtag))
       /\ (ifNoneMatch.t = "string" /\ ifNoneMatch.s \in ValidatorTexts
              /\ Trim(ifNoneMatch.s) = ifNoneMatch.s /\ ifNoneMatch.s \notin {<<>>, <<"*">>}
              /\ Trim(ToggleWeak(ifNoneMatch.s)) = ToggleWeak(ifNoneMatch.s))
          => (matches = "yes") <=> etagMatches(Str(ToggleWeak(ifNoneMatch.s)), currentEtag)

\* a weak validator in a list matched against a strong current etag
C5_Witness ==
    /\ matches = "yes"
    /\ currentEtag = <<"\"", "b", "\"">>
    /\ ifNoneMatch = Str(<<"\"", "a", "\"", ",", " ", "W", "/", "\"", "b", "\"">>)

(***************************************************************************)
(* The canonicaliser on its own.                                           *)
(***************************************************************************)
s_OpenAI == <<"O", "p", "e", "n", "A", "I">>

\* the provider and model arrays createManifestTags is given: providers as
\* the resolution run builds them (two creator slugs, openai and OpenAI,
\* get the display name OpenAI) and models as transformAAModel builds them
ProviderLists ==
    { <<ProviderOfValue(s_openai), ProviderOfValue(s_zai)>>,
      <<ProviderOfValue(s_openai), ProviderOfValue(s_OpenAI)>>,
      <<ProviderOfValue(s_zai), ProviderOfValue(s_openai), ProviderOfValue(s_OpenAI)>> }

ModelLists ==
    { <<transformAAModel(AA_gpt5), transformAAModel(AA_grok)>>,
      <<transformAAModel(AA_glm), transformAAModel(AA_gpt5), transformAAModel(AA_grok)>> }

NestedKeys == {"capabilities", "metrics", "pricing", "config"}

\* a sequence with the items at i and i + 1 exchanged
SwapAt(seq, i) ==
    [k \in 1..Len(seq) |-> IF k = i THEN seq[i + 1] ELSE IF k = i + 1 THEN seq[i] ELSE seq[k]]

\* the same object built with the properties at j and j + 1 the other way round
SwapProps(v, j) == Obj(SwapAt(v.o, j))

InitTags ==
    /\ providers0 \in ProviderLists
    /\ models0 \in ModelLists
    /\ providers = providers0
    /\ models = models0
    /\ tags0 = createManifestTags(providers0, models0)
    /\ tags = tags0
    /\ shuffles = 0
    /\ rekeys = 0
    /\ ServerIdle
    /\ EtagIdle
    /\ OverridesIdle
    /\ FilterIdle
    /\ RestIdle

\* createManifestTags on the providers in another array order
ShuffleProviders ==
    /\ shuffles < MaxSwaps
    /\ \E i \in 1..(Len(providers) - 1) :
          /\ providers' = SwapAt(providers, i)
          /\ tags' = createManifestTags(providers', models)
    /\ shuffles' = shuffles + 1
    /\ UNCHANGED <<providers0, models0, models, tags0, rekeys,
                   serverVars, etagVars, overrideVars, filterVars, restVars>>

\* createManifestTags on the models in another array order
ShuffleModels ==
    /\ shuffles < MaxSwaps
    /\ \E i \in 1..(Len(models) - 1) :
          /\ models' = SwapAt(models, i)
          /\ tags' = createManifestTags(providers, models')
    /\ shuffles' = shuffles + 1
    /\ UNCHANGED <<providers0, models0, providers, tags0, rekeys,
                   serverVars, etagVars, overrideVars, filterVars, restVars>>

\* createManifestTags on a provider record built in another key order
ReorderProviderKeys ==
    /\ rekeys < MaxRekeys
    /\ \E i \in 1..Len(providers) : \E j \in 1..(Len(providers[i].o) - 1) :
          /\ providers' = [providers EXCEPT ![i] = SwapProps(@, j)]
          /\ tags' = createManifestTags(providers', models)
    /\ rekeys' = rekeys + 1
    /\ UNCHANGED <<providers0, models0, models, tags0, shuffles,
                   serverVars, etagVars, overrideVars, filterVars, restVars>>

\* createManifestTags on a model record built in another key order
ReorderModelKeys ==
    /\ rekeys < MaxRekeys
    /\ \E i \in 1..Len(models) : \E j \in 1..(Len(models[i].o) - 1) :
          /\ models' = [models EXCEPT ![i] = SwapProps(@, j)]
          /\ tags' = createManifestTags(providers, models')
    /\ rekeys' = rekeys + 1
    /\ UNCHANGED <<providers0, models0, providers, tags0, shuffles,
                   serverVars, etagVars, overrideVars, filterVars, restVars>>

\* createManifestTags on a model whose nested object was built in another
\* key order
ReorderNestedKeys ==
    /\ rekeys < MaxRekeys
    /\ \E i \in 1..Len(models), k \in NestedKeys :
          /\ Get(models[i], k).t = "object"
          /\ \E j \in 1..(Len(Get(models[i], k).o) - 1) :
                /\ models' = [models EXCEPT ![i] = Set(@, k, SwapProps(Get(@, k), j))]
                /\ tags' = createManifestTags(providers, models')
    /\ rekeys' = rekeys + 1
    /\ UNCHANGED <<providers0, models0, providers, tags0, shuffles,
                   serverVars, etagVars, overrideVars, filterVars, restVars>>

NextTags ==
    \/ ShuffleProviders
    \/ ShuffleModels
    \/ ReorderProviderKeys
    \/ ReorderModelKeys
    \/ ReorderNestedKeys

SpecTags == InitTags /\ [][NextTags]_vars

\* the arrays hold the records they held at first, whatever the order of the
\* arrays and of the keys
SameLogicalContent ==
    /\ Len(providers) = Len(providers0) /\ Len(models) = Len(models0)
    /\ \A x \in 1..Len(providers0) :
          Cardinality({i \in 1..Len(providers0) : SameContent(providers0[i], providers0[x])})
          = Cardinality({i \in 1..Len(providers) : SameContent(providers[i], providers0[x])})
    /\ \A x \in 1..Len(models0) :
          Cardinality({i \in 1..Len(models0) : SameContent(models0[i], models0[x])})
          = Cardinality({i \in 1..Len(models) : SameContent(models[i], models0[x])})

\* C1: createManifestTags is independent of array order: the providers and
\* the models in any other array order get the same etag and version.
C1_ArrayOrderIndependent ==
    (rekeys = 0 /\ SameLogicalContent) => tags = tags0

\* C2: createManifestTags is independent of object key order: the same
\* records, built with their fields (or the fields of their nested objects)
\* in another order, get the same etag and version.
C2_KeyOrderIndependent ==
    (shuffles = 0 /\ SameLogicalContent) => tags = tags0

(***************************************************************************)
(* Override resolver (shared/src/custom.ts).  A Map is the sequence of its *)
(* <<key, value>> entries in insertion order, as the properties of an      *)
(* object are; its keys are texts.                                         *)
(***************************************************************************)
cloneModel(model) ==
    LET m0 == Spread(Obj(<<>>), model)
        m1 == Set(m0, "capabilities", CopyOrUndef(Get(model, "capabilities")))
        m2 == Set(m1, "metrics", CopyOrUndef(Get(model, "metrics")))
        m3 == Set(m2, "pricing", CopyOrUndef(Get(model, "pricing")))
    IN  Set(m3, "config", CopyOrUndef(Get(model, "config")))

\* `${provider}:${value}`
ModelKey(provider, value) == provider.s \o <<":">> \o value.s

\* `custom:${override.provider}:${override.value}`
CustomId(override) ==
    Str(<<"c", "u", "s", "t", "o", "m", ":">>
        \o ModelKey(Get(override, "provider"), Get(override, "value")))

\* one turn of the loop over overrides.providers
ApplyProviderOverride(providerMap, override) ==
    LET existing == Get(providerMap, Get(override, "value").s)
    IN  IF Truthy(existing)
        THEN Set(providerMap, Get(override, "value").s, Spread(existing, override))
        ELSE Set(providerMap, Get(override, "value").s,
                 Obj(<< <<"value", Get(override, "value")>>,
                        <<"name", Coalesce(Get(override, "name"), Get(override, "value"))>>,
                        <<"keyPlaceholder", Get(override, "keyPlaceholder")>>,
                        <<"website", Get(override, "website")>>,
                        <<"status", Coalesce(Get(override, "status"), Str(s_active))>> >>))

\* PatchField assigning the field whether the override sets it or not
PatchField_erase(model, override, key) == Set(model, key, Get(override, key))

\* if (override.key !== undefined) model.key = override.key
PatchField(model, override, key) ==
    IF Get(override, key).t # "undefined" THEN Set(model, key, Get(override, key)) ELSE model

\* if (override.key !== undefined) model.key = override.key ? { ...override.key } : undefined
PatchObject(model, override, key) ==
    IF Get(override, key).t # "undefined"
    THEN Set(model, key, CopyOrUndef(Get(override, key))) ELSE model

\* the metrics of the override spread over the metrics of the model
PatchMetrics(model, override) ==
    IF Get(override, "metrics").t # "undefined"
    THEN LET current == Coalesce(Get(model, "metrics"), Obj(<<>>))
         IN  Set(model, "metrics",
                 IF Truthy(Get(override, "metrics"))
                 THEN Spread(current, Get(override, "metrics")) ELSE Undef)
    ELSE model

\* StartModel keeping the provider and value of the model it clones
StartModel_sameTarget(baseModelIndex, modelsMap, override) ==
    LET key == ModelKey(Get(override, "provider"), Get(override, "value"))
        existing == Get(modelsMap, key)
        inheritFrom == Get(override, "inheritFrom")
        inheritedBase == IF Truthy(inheritFrom)
                         THEN Get(baseModelIndex,
                                  ModelKey(Get(inheritFrom, "provider"), Get(inheritFrom, "value")))
                         ELSE Undef
    IN  IF Truthy(inheritFrom) /\ Truthy(inheritedBase)
        THEN Set(cloneModel(inheritedBase), "id",
                 Coalesce(Get(override, "id"), CustomId(override)))
        ELSE IF Truthy(existing)
        THEN LET model == cloneModel(existing)
             IN  IF Get(override, "id").t # "undefined"
                 THEN Set(model, "id", Get(override, "id")) ELSE model
        ELSE LET name == Coalesce(Get(override, "name"), Get(override, "value"))
             IN  Obj(<< <<"id", Coalesce(Get(override, "id"), CustomId(override))>>,
                        <<"provider", Get(override, "provider")>>,
                        <<"value", Get(override, "value")>>,
                        <<"name", name>>,
                        <<"alias", Coalesce(Get(override, "alias"),
                                            Str(AliasOfName(name.s)))>> >>)

\* StartModel building the minimal model whenever the inheritFrom of the
\* override names no base model
StartModel_noExisting(baseModelIndex, modelsMap, override) ==
    LET key == ModelKey(Get(override, "provider"), Get(override, "value"))
        existing == Get(modelsMap, key)
        inheritFrom == Get(override, "inheritFrom")
        inheritedBase == IF Truthy(inheritFrom)
                         THEN Get(baseModelIndex,
                                  ModelKey(Get(inheritFrom, "provider"), Get(inheritFrom, "value")))
                         ELSE Undef
    IN  IF Truthy(inheritFrom) /\ Truthy(inheritedBase)
        THEN LET base == cloneModel(inheritedBase)
             IN  Set(Set(Set(base, "provider", Get(override, "provider")),
                         "value", Get(override, "value")),
                     "id", Coalesce(Get(override, "id"), CustomId(override)))
        ELSE IF Truthy(existing) /\ ~Truthy(inheritFrom)
        THEN LET model == cloneModel(existing)
             IN  IF Get(override, "id").t # "undefined"
                 THEN Set(model, "id", Get(override, "id")) ELSE model
        ELSE LET name == Coalesce(Get(override, "name"), Get(override, "value"))
             IN  Obj(<< <<"id", Coalesce(Get(override, "id"), CustomId(override))>>,
                        <<"provider", Get(override, "provider")>>,
                        <<"value", Get(override, "value")>>,
                        <<"name", name>>,
                        <<"alias", Coalesce(Get(override, "alias"),
                                            Str(AliasOfName(name.s)))>> >>)

\* StartModel looking the source of a clone up among the models as they are now
StartModel_fromCurrent(baseModelIndex, modelsMap, override) ==
    LET key == ModelKey(Get(override, "provider"), Get(override, "value"))
        existing == Get(modelsMap, key)
        inheritFrom == Get(override, "inheritFrom")
        inheritedBase == IF Truthy(inheritFrom)
                         THEN Get(modelsMap,
                                  ModelKey(Get(inheritFrom, "provider"), Get(inheritFrom, "value")))
                         ELSE Undef
    IN  IF Truthy(inheritFrom) /\ Truthy(inheritedBase)
        THEN LET base == cloneModel(inheritedBase)
             IN  Set(Set(Set(base, "provider", Get(override, "provider")),
                         "value", Get(override, "value")),
                     "id", Coalesce(Get(override, "id"), CustomId(override)))
        ELSE IF Truthy(existing)
        THEN LET model == cloneModel(existing)
             IN  IF Get(override, "id").t # "undefined"
                 THEN Set(model, "id", Get(override, "id")) ELSE model
        ELSE LET name == Coalesce(Get(override, "name"), Get(override, "value"))
             IN  Obj(<< <<"id", Coalesce(Get(override, "id"), CustomId(override))>>,
                        <<"provider", Get(override, "provider")>>,
                        <<"value", Get(override, "value")>>,
                        <<"name", name>>,
                        <<"alias", Coalesce(Get(override, "alias"),
                                            Str(AliasOfName(name.s)))>> >>)

\* the model an override starts from
StartModel(baseModelIndex, modelsMap, override) ==
    LET key == ModelKey(Get(override, "provider"), Get(override, "value"))
        existing == Get(modelsMap, key)
        inheritFrom == Get(override, "inheritFrom")
        inheritedBase == IF Truthy(inheritFrom)
                         THEN Get(baseModelIndex,
                                  ModelKey(Get(inheritFrom, "provider"), Get(inheritFrom, "value")))
                         ELSE Undef
    IN  IF Truthy(inheritFrom) /\ Truthy(inheritedBase)
        THEN LET base == cloneModel(inheritedBase)
             IN  Set(Set(Set(base, "provider", Get(override, "provider")),
                         "value", Get(override, "value")),
                     "id", Coalesce(Get(override, "id"), CustomId(override)))
        ELSE IF Truthy(existing)
        THEN LET model == cloneModel(existing)
             IN  IF Get(override, "id").t # "undefined"
                 THEN Set(model, "id", Get(override, "id")) ELSE model
        ELSE LET name == Coalesce(Get(override, "name"), Get(override, "value"))
             IN  Obj(<< <<"id", Coalesce(Get(override, "id"), CustomId(override))>>,
                        <<"provider", Get(override, "provider")>>,
                        <<"value", Get(override, "value")>>,
                        <<"name", name>>,
                        <<"alias", Coalesce(Get(override, "alias"),
                                            Str(AliasOfName(name.s)))>> >>)

\* one turn of the loop over overrides.models
ApplyModelOverride(baseModelIndex, modelsMap, override) ==
    LET key == ModelKey(Get(override, "provider"), Get(override, "value"))
        m0 == StartModel(baseModelIndex, modelsMap, override)
        m1 == PatchField(m0, override, "name")
        m2 == PatchField(m1, override, "alias")
        m3 == PatchObject(m2, override, "capabilities")
        m4 == PatchField(m3, override, "iq")
        m5 == PatchField(m4, override, "speed")
        m6 == PatchMetrics(m5, override)
        m7 == PatchObject(m6, override, "pricing")
        m8 == PatchField(m7, override, "releaseDate")
        m9 == PatchField(m8, override, "status")
        m10 == PatchObject(m9, override, "config")
    IN  Set(modelsMap, key, m10)

RECURSIVE SeedProviders(_, _)
SeedProviders(providerMap, list) ==
    IF list = <<>> THEN providerMap
    ELSE SeedProviders(Set(providerMap, Get(Head(list), "value").s,
                           Spread(Obj(<<>>), Head(list))), Tail(list))

RECURSIVE FoldProviderOverrides(_, _)
FoldProviderOverrides(providerMap, list) ==
    IF list = <<>> THEN providerMap
    ELSE FoldProviderOverrides(ApplyProviderOverride(providerMap, Head(list)), Tail(list))

\* baseModelIndex (clone = FALSE) and the seed of modelsMap (clone = TRUE)
RECURSIVE SeedModels(_, _, _)
SeedModels(map, list, clone) ==
    IF list = <<>> THEN map
    ELSE SeedModels(Set(map, ModelKey(Get(Head(list), "provider"), Get(Head(list), "value")),
                        IF clone THEN cloneModel(Head(list)) ELSE Head(list)),
                    Tail(list), clone)

\* the loop over overrides.models taking the list from its end
RECURSIVE FoldModelOverrides_reversed(_, _, _)
FoldModelOverrides_reversed(baseModelIndex, modelsMap, list) ==
    IF list = <<>> THEN modelsMap
    ELSE FoldModelOverrides_reversed(baseModelIndex,
                                     ApplyModelOverride(baseModelIndex, modelsMap,
                                                        list[Len(list)]),
                                     SubSeq(list, 1, Len(list) - 1))

RECURSIVE FoldModelOverrides(_, _, _)
FoldModelOverrides(baseModelIndex, modelsMap, list) ==
    IF list = <<>> THEN modelsMap
    ELSE FoldModelOverrides(baseModelIndex,
                            ApplyModelOverride(baseModelIndex, modelsMap, Head(list)),
                            Tail(list))

applyOverrides(bProviders, bModels, config) ==
    LET providerMap == FoldProviderOverrides(SeedProviders(Obj(<<>>), bProviders),
                                             config.providers)
        baseModelIndex == SeedModels(Obj(<<>>), bModels, FALSE)
        modelsMap == FoldModelOverrides(baseModelIndex,
                                        SeedModels(Obj(<<>>), bModels, TRUE),
                                        config.models)
    IN  [providers |-> Items(providerMap), models |-> Items(modelsMap)]

(***************************************************************************)
(* The override resolver on its own.                                       *)
(***************************************************************************)
s_azure == <<"a", "z", "u", "r", "e">>
s_preview == <<"p", "r", "e", "v", "i", "e", "w">>

\* the base datasets: the models of an upstream dataset, as transformAAModel
\* builds them
BaseModelLists ==
    { <<transformAAModel(AA_gpt5), transformAAModel(AA_grok)>>,
      <<transformAAModel(AA_gpt5), transformAAModel(AA_glm), transformAAModel(AA_grok)>>,
      <<transformAAModel(AA_gpt5), transformAAModel(AA_gpt5b), transformAAModel(AA_grok)>> }

BaseProvidersOf(list) ==
    LET values == UniqueProviders(list, {})
    IN  [i \in 1..Len(values) |-> ProviderOfValue(values[i])]

Ref(provider, value) == Obj(<< <<"provider", Str(provider)>>, <<"value", Str(value)>> >>)

\* the model overrides a configuration is made of
ModelOverridePool ==
    { \* a clone, as in AZURE_MODEL_OVERRIDES
      Obj(<< <<"provider", Str(s_azure)>>, <<"value", Str(s_gpt5)>>,
             <<"inheritFrom", Ref(s_openai, s_gpt5)>> >>),
      \* a patch of the same key
      Obj(<< <<"provider", Str(s_azure)>>, <<"value", Str(s_gpt5)>>,
             <<"iq", Num(2)>>,
             <<"metrics", Obj(<< <<"contextWindow", Num(64000)>> >>)>> >>),
      \* a clone with an id and fields of its own
      Obj(<< <<"provider", Str(s_azure)>>, <<"value", Str(s_gpt5)>>,
             <<"inheritFrom", Ref(s_openai, s_gpt5)>>,
             <<"id", Str(<<"az-1">>)>>,
             <<"capabilities", Obj(<< <<"text", Bool(TRUE)>> >>)>>,
             <<"config", Obj(<< <<"mode", Str(<<"json">>)>> >>)>>,
             <<"releaseDate", Str(<<"2", "0", "2", "5", "-", "0", "9", "-", "0", "1">>)>> >>),
      \* a patch of a base model
      Obj(<< <<"provider", Str(s_openai)>>, <<"value", Str(s_gpt5)>>,
             <<"name", Str(<<"G", "P", "T", " ", "5">>)>>,
             <<"speed", Num(5)>>,
             <<"status", Str(s_preview)>>,
             <<"pricing", Obj(<< <<"input", Num(2)>> >>)>>,
             <<"metrics", Obj(<< <<"mathIndex", Num(95)>>,
                                 <<"codingIndex", Undef>> >>)>> >>),
      \* a clone aimed at the key of a base model
      Obj(<< <<"provider", Str(s_openai)>>, <<"value", Str(s_gpt5)>>,
             <<"inheritFrom", Ref(s_xai, s_grok)>>,
             <<"alias", Str(<<"G">>)>> >>),
      \* as in CEREBRAS_MODEL_OVERRIDES: the source is in some base datasets only
      Obj(<< <<"provider", Str(s_azure)>>, <<"value", Str(s_glm)>>,
             <<"inheritFrom", Ref(s_zai, s_glm)>>,
             <<"status", Str(s_preview)>>,
             <<"speed", Num(5)>>,
             <<"metrics", Obj(<< <<"contextWindow", Num(131072)>> >>)>> >>),
      \* the same aimed at the key of a base model
      Obj(<< <<"provider", Str(s_xai)>>, <<"value", Str(s_grok)>>,
             <<"inheritFrom", Ref(s_zai, s_glm)>>,
             <<"id", Str(<<"x-1">>)>>,
             <<"iq", Num(3)>> >>),
      \* a new model with a name
      Obj(<< <<"provider", Str(s_azure)>>, <<"value", Str(s_glm)>>,
             <<"name", Str(<<"G", "L", "M", " ", "(", "x", ")">>)>> >>),
      \* a patch of the source of a clone, which makes the source where the
      \* base dataset has none
      Obj(<< <<"provider", Str(s_zai)>>, <<"value", Str(s_glm)>>,
             <<"iq", Num(1)>>,
             <<"releaseDate", Str(<<"2", "0", "2", "4", "-", "0", "1", "-", "0", "1">>)>> >>) }

\* the provider overrides a configuration is made of
ProviderOverridePool ==
    { Obj(<< <<"value", Str(s_azure)>> >>),
      Obj(<< <<"value", Str(s_openai)>>,
             <<"website", Str(<<"https://openai.com">>)>>,
             <<"status", Str(s_preview)>> >>),
      Obj(<< <<"value", Str(s_xai)>>, <<"name", Undef>>,
             <<"keyPlaceholder", Str(<<"xai-...">>)>> >>) }

InitOverrides ==
    /\ baseModels \in BaseModelLists
    /\ baseProviders = BaseProvidersOf(baseModels)
    /\ overrides = NoOverrides
    /\ resolved = NoResolved
    /\ ServerIdle
    /\ TagsIdle
    /\ EtagIdle
    /\ FilterIdle
    /\ RestIdle

\* the configuration gets one more model override
AddModelOverride ==
    /\ ~resolved.done
    /\ Len(overrides.models) < MaxOverrides
    /\ \E o \in ModelOverridePool :
          overrides' = [overrides EXCEPT !.models = Append(@, o)]
    /\ UNCHANGED <<baseProviders, baseModels, resolved,
                   serverVars, tagVars, etagVars, filterVars, restVars>>

\* the configuration gets one more provider override
AddProviderOverride ==
    /\ ~resolved.done
    /\ Len(overrides.providers) < MaxProviderOverrides
    /\ \E o \in ProviderOverridePool :
          overrides' = [overrides EXCEPT !.providers = Append(@, o)]
    /\ UNCHANGED <<baseProviders, baseModels, resolved,
                   serverVars, tagVars, etagVars, filterVars, restVars>>

\* applyOverrides(baseProviders, baseModels, overrides)
Resolve ==
    /\ ~resolved.done
    /\ LET r == applyOverrides(baseProviders, baseModels, overrides)
       IN  resolved' = [done |-> TRUE, providers |-> r.providers, models |-> r.models]
    /\ UNCHANGED <<baseProviders, baseModels, overrides,
                   serverVars, tagVars, etagVars, filterVars, restVars>>

NextOverrides ==
    \/ AddModelOverride
    \/ AddProviderOverride
    \/ Resolve

SpecOverrides ==
    InitOverrides /\ [][NextOverrides]_vars

(***************************************************************************)
(* Properties of the override resolver.                                    *)
(***************************************************************************)
PatchFields ==
    {"name", "alias", "capabilities", "iq", "speed", "pricing", "releaseDate",
     "status", "config"}

MetricKeys == {"contextWindow", "intelligenceIndex", "codingIndex", "mathIndex"}

Targets(o, provider, value) ==
    Get(o, "provider").s = provider /\ Get(o, "value").s = value

\* the last model of a list with the given provider and value
ModelAt(list, provider, value) ==
    LET hits == {i \in 1..Len(list) : Targets(list[i], provider, value)}
    IN  IF hits = {} THEN Undef
        ELSE list[CHOOSE i \in hits : \A j \in hits : j <= i]

BaseAt(provider, value) == ModelAt(baseModels, provider, value)

ResolvedAt(provider, value) == ModelAt(resolved.models, provider, value)

TargetOf(o) == <<Get(o, "provider").s, Get(o, "value").s>>

\* the overrides of the configuration for a key, by their place in the list
OverridesFor(t) ==
    {j \in 1..Len(overrides.models) : TargetOf(overrides.models[j]) = t}

\* the base model an override inherits from, undefined when it names none
SourceOf(o) ==
    IF Get(o, "inheritFrom").t = "undefined" THEN Undef
    ELSE BaseAt(Get(Get(o, "inheritFrom"), "provider").s,
                Get(Get(o, "inheritFrom"), "value").s)

Inherits(o) == SourceOf(o).t # "undefined"

Dangling(o) == Get(o, "inheritFrom").t # "undefined" /\ ~Inherits(o)

SetsField(o, f) == Get(o, f).t # "undefined"

\* what the text says a field, and a metric, is once override o patched model m
FieldAfter(o, m, f) == IF SetsField(o, f) THEN Get(o, f) ELSE Get(m, f)

MetricAfter(o, m, k) ==
    IF HasKey(Get(o, "metrics"), k) THEN Get(Get(o, "metrics"), k)
    ELSE Get(Get(m, "metrics"), k)

Max(S) == CHOOSE x \in S : \A y \in S : y <= x

Min(S) == CHOOSE x \in S : \A y \in S : x <= y

CustomIdText(t) == <<"c", "u", "s", "t", "o", "m", ":">> \o t[1] \o <<":">> \o t[2]

\* the part of a name before its first "(", without the blanks around it
ShortName(name) ==
    LET opens == {i \in 1..Len(name) : name[i] = "("}
        cut == IF opens = {} THEN Len(name) + 1 ELSE Min(opens)
    IN  Inner(SubSeq(name, 1, cut - 1), {" "})

\* C7 as stated: for every base model M and every model override O with the
\* same (provider, value), the resolved model has O's value for each field O
\* sets and M's value for each field O does not set, metrics merged key by key.
C7_EveryOverrideOverBase ==
    resolved.done
    => \A i \in 1..Len(baseModels), j \in 1..Len(overrides.models) :
          LET M == baseModels[i]
              O == overrides.models[j]
              R == ResolvedAt(TargetOf(O)[1], TargetOf(O)[2])
          IN  TargetOf(M) = TargetOf(O)
              => /\ \A f \in PatchFields : Get(R, f) = FieldAfter(O, M, f)
                 /\ \A k \in MetricKeys : Get(Get(R, "metrics"), k) = MetricAfter(O, M, k)

\* C7 as amended: for the base model M of a key and the model override O that
\* is the only override for that key and inherits from no base model, the
\* resolved model has O's value for each field O sets and M's value for each
\* field O does not set, metrics merged key by key on top of M's metrics.
C7_OverridePrecedence ==
    resolved.done
    => \A j \in 1..Len(overrides.models) :
          LET O == overrides.models[j]
              M == BaseAt(TargetOf(O)[1], TargetOf(O)[2])
              R == ResolvedAt(TargetOf(O)[1], TargetOf(O)[2])
          IN  (M.t # "undefined" /\ OverridesFor(TargetOf(O)) = {j} /\ ~Inherits(O))
              => /\ R.t # "undefined"
                 /\ \A f \in PatchFields : Get(R, f) = FieldAfter(O, M, f)
                 /\ \A k \in MetricKeys : Get(Get(R, "metrics"), k) = MetricAfter(O, M, k)

\* a base model patched by its only override, which sets the name and the
\* metrics and leaves the alias and the iq alone
C7_Witness ==
    /\ resolved.done
    /\ \E j \in 1..Len(overrides.models) :
          LET O == overrides.models[j]
              M == BaseAt(TargetOf(O)[1], TargetOf(O)[2])
          IN  /\ M.t # "undefined" /\ OverridesFor(TargetOf(O)) = {j} /\ ~Inherits(O)
              /\ SetsField(O, "name") /\ SetsField(O, "metrics")
              /\ ~SetsField(O, "alias") /\ ~SetsField(O, "iq")
              /\ Get(M, "iq").t # "undefined"

\* C8 as stated: when several overrides target one key, the final value of
\* each field is the one set by the last override in the list that sets it.
C8_LastSetterWins ==
    resolved.done
    => \A j \in 1..Len(overrides.models) :
          LET t == TargetOf(overrides.models[j])
              R == ResolvedAt(t[1], t[2])
          IN  \A f \in PatchFields :
                 LET setters == {i \in OverridesFor(t) : SetsField(overrides.models[i], f)}
                 IN  setters # {} => Get(R, f) = Get(overrides.models[Max(setters)], f)

\* the model the overrides of a key build on: the clone made by the last of
\* them that inherits from a base model, else the base model of the key, else
\* the minimal model made from the first of them
StartOf(t) ==
    LET all == OverridesFor(t)
        restarts == {i \in all : Inherits(overrides.models[i])}
        first == overrides.models[Min(all)]
        name == IF SetsField(first, "name") THEN Get(first, "name") ELSE Str(t[2])
    IN  IF restarts # {} THEN SourceOf(overrides.models[Max(restarts)])
        ELSE IF BaseAt(t[1], t[2]).t # "undefined" THEN BaseAt(t[1], t[2])
        ELSE Obj(<< <<"name", name>>,
                    <<"alias", IF SetsField(first, "alias") THEN Get(first, "alias")
                               ELSE Str(ShortName(name.s))>> >>)

\* the overrides of a key from the last one that inherits from a base model on
LiveFor(t) ==
    LET all == OverridesFor(t)
        restarts == {i \in all : Inherits(overrides.models[i])}
    IN  IF restarts = {} THEN all ELSE {i \in all : i >= Max(restarts)}

\* C8 as amended: the overrides of a key are applied in list order, an
\* override that inherits from a base model starting afresh from its clone:
\* the final value of a field (and of a metric) is the one set by the last
\* override that sets it among those from the last inheriting override on,
\* and the value of the model they build on when none of them sets it.
C8_ListOrder ==
    resolved.done
    => \A j \in 1..Len(overrides.models) :
          LET t == TargetOf(overrides.models[j])
              R == ResolvedAt(t[1], t[2])
          IN  /\ R.t # "undefined"
              /\ \A f \in PatchFields :
                    LET setters == {i \in LiveFor(t) : SetsField(overrides.models[i], f)}
                    IN  Get(R, f) = IF setters # {}
                                    THEN Get(overrides.models[Max(setters)], f)
                                    ELSE Get(StartOf(t), f)
              /\ \A k \in MetricKeys :
                    LET setters == {i \in LiveFor(t) :
                                       HasKey(Get(overrides.models[i], "metrics"), k)}
                    IN  Get(Get(R, "metrics"), k)
                        = IF setters # {}
                          THEN Get(Get(overrides.models[Max(setters)], "metrics"), k)
                          ELSE Get(Get(StartOf(t), "metrics"), k)

\* two overrides of one key, the later one a patch that leaves alone a field
\* the earlier one set
C8_Witness ==
    /\ resolved.done
    /\ \E i, j \in 1..Len(overrides.models) :
          /\ i < j
          /\ TargetOf(overrides.models[i]) = TargetOf(overrides.models[j])
          /\ ~Inherits(overrides.models[j])
          /\ \E f \in PatchFields :
                /\ SetsField(overrides.models[i], f)
                /\ ~SetsField(overrides.models[j], f)
                /\ Get(ResolvedAt(TargetOf(overrides.models[j])[1],
                                  TargetOf(overrides.models[j])[2]), f)
                   = Get(overrides.models[i], f)

\* C9: an override that inherits from base model S, and is the last override
\* of its key, leaves under its own (provider, value) a model whose every
\* field the override does not set is S's, with the provider and value of the
\* override and the id of the override or custom:{provider}:{value}.
C9_InheritanceCloning ==
    resolved.done
    => \A j \in 1..Len(overrides.models) :
          LET O == overrides.models[j]
              t == TargetOf(O)
              S == SourceOf(O)
              R == ResolvedAt(t[1], t[2])
          IN  (Inherits(O) /\ j = Max(OverridesFor(t)))
              => /\ R.t # "undefined"
                 /\ Cardinality({i \in 1..Len(resolved.models) :
                                    TargetOf(resolved.models[i]) = t}) = 1
                 /\ Get(R, "id") = IF SetsField(O, "id") THEN Get(O, "id")
                                   ELSE Str(CustomIdText(t))
                 /\ \A f \in ({Keys(S)[i] : i \in 1..Len(S.o)} \cup PatchFields
                                \cup {"metrics"}) \ {"provider", "value", "id"} :
                       ~SetsField(O, f) => Get(R, f) = Get(S, f)
                 /\ \A f \in PatchFields : SetsField(O, f) => Get(R, f) = Get(O, f)

\* a clone under another provider that sets its capabilities and keeps the
\* name and the metrics of its source
C9_Witness ==
    /\ resolved.done
    /\ \E j \in 1..Len(overrides.models) :
          LET O == overrides.models[j]
          IN  /\ Inherits(O) /\ j = Max(OverridesFor(TargetOf(O)))
              /\ TargetOf(O) # TargetOf(SourceOf(O))
              /\ SetsField(O, "capabilities") /\ ~SetsField(O, "name")
              /\ Get(ResolvedAt(TargetOf(O)[1], TargetOf(O)[2]), "name")
                 = Get(SourceOf(O), "name")

\* the model at the key of the last override before that override is applied
BeforeLast ==
    LET n == Len(overrides.models)
        O == overrides.models[n]
    IN  ModelAt(applyOverrides(baseProviders, baseModels,
                               [overrides EXCEPT !.models = SubSeq(@, 1, n - 1)]).models,
                TargetOf(O)[1], TargetOf(O)[2])

\* the resolved model at the key of the last override, when the model that
\* was at the key is prev
PatchedOnTop(O, prev, R) ==
    /\ Get(R, "id") = IF SetsField(O, "id") THEN Get(O, "id") ELSE Get(prev, "id")
    /\ \A f \in PatchFields : Get(R, f) = FieldAfter(O, prev, f)
    /\ \A k \in MetricKeys : Get(Get(R, "metrics"), k) = MetricAfter(O, prev, k)

\* C10 as stated: an override whose inheritFrom names no base model leaves,
\* without an error, the model already at its key with its set fields on top
\* or, when there is none, a minimal model of its provider, value, name
\* (default: value) and alias with the custom id and its set fields on top.
C10_DanglingAsStated ==
    (resolved.done /\ overrides.models # <<>>
        /\ Dangling(overrides.models[Len(overrides.models)]))
    => LET O == overrides.models[Len(overrides.models)]
           t == TargetOf(O)
           R == ResolvedAt(t[1], t[2])
       IN  /\ R.t # "undefined"
           /\ IF BeforeLast.t # "undefined" THEN PatchedOnTop(O, BeforeLast, R)
              ELSE PatchedOnTop(O, Obj(<< <<"id", Str(CustomIdText(t))>>,
                                          <<"name", Str(t[2])>>,
                                          <<"alias", Get(O, "alias")>> >>), R)

\* C10 as amended: the same, the alias of the minimal model being the alias
\* of the override when it gives one and otherwise the part of the name
\* before its first "(" without the blanks around it.
C10_DanglingFallback ==
    (resolved.done /\ overrides.models # <<>>
        /\ Dangling(overrides.models[Len(overrides.models)]))
    => LET O == overrides.models[Len(overrides.models)]
           t == TargetOf(O)
           R == ResolvedAt(t[1], t[2])
           name == IF SetsField(O, "name") THEN Get(O, "name").s ELSE t[2]
       IN  /\ R.t # "undefined"
           /\ Get(R, "provider").s = t[1] /\ Get(R, "value").s = t[2]
           /\ IF BeforeLast.t # "undefined" THEN PatchedOnTop(O, BeforeLast, R)
              ELSE PatchedOnTop(O, Obj(<< <<"id", Str(CustomIdText(t))>>,
                                          <<"name", Str(name)>>,
                                          <<"alias", Str(ShortName(name))>> >>), R)

\* an override with a dangling inheritFrom patched the model an earlier
\* override had put at its key
C10_Witness ==
    /\ resolved.done
    /\ Len(overrides.models) = 2
    /\ Dangling(overrides.models[2])
    /\ TargetOf(overrides.models[1]) = TargetOf(overrides.models[2])
    /\ BaseAt(TargetOf(overrides.models[2])[1], TargetOf(overrides.models[2])[2]).t
       = "undefined"

ProviderFields == {"value", "name", "keyPlaceholder", "website", "status"}

\* the last provider of a list with the given value
ProviderAt(list, value) ==
    LET hits == {i \in 1..Len(list) : Get(list[i], "value").s = value}
    IN  IF hits = {} THEN Undef ELSE list[Max(hits)]

\* C11: a provider override on an existing slug is a per-field patch: each
\* field of the resolved provider is the override's value when the override
\* gives it a defined value and the existing provider's value otherwise, an
\* undefined override field removing nothing.
C11_ProviderPatch ==
    resolved.done
    => \A j \in 1..Len(overrides.providers) :
          LET O == overrides.providers[j]
              slug == Get(O, "value").s
              E == ProviderAt(baseProviders, slug)
              R == ProviderAt(resolved.providers, slug)
          IN  (E.t # "undefined"
                  /\ \A i \in 1..Len(overrides.providers) :
                        Get(overrides.providers[i], "value").s = slug => i = j)
              => \A f \in ProviderFields :
                    Get(R, f) = IF Get(O, f).t # "undefined" THEN Get(O, f) ELSE Get(E, f)

(***************************************************************************)
(* Properties of the manifests of the resolution runs.                     *)
(***************************************************************************)
\* C12: a manifest produced by a resolution run holds no two models with the
\* same (provider, value), whatever the upstream dataset is.
C12_UniqueModelKeys ==
    \A r \in runs :
        \A i, j \in 1..Len(r.manifest.models) :
            (/\ Get(r.manifest.models[i], "provider") = Get(r.manifest.models[j], "provider")
             /\ Get(r.manifest.models[i], "value") = Get(r.manifest.models[j], "value"))
            => i = j

(***************************************************************************)
(* The query engine on its own.                                            *)
(***************************************************************************)
MaxPredicates == 2

s_beta == <<"b", "e", "t", "a">>
s_llama == <<"l", "l", "a", "m", "a">>

\* models as a manifest holds them
F_gpt5 ==
    Obj(<< <<"id", Str(<<"aa-1">>)>>, <<"provider", Str(s_openai)>>, <<"value", Str(s_gpt5)>>,
           <<"name", Str(<<"G", "P", "T", "-", "5", " ", "(", "h", "i", ")">>)>>, <<"alias", Str(<<"G", "P", "T", "-", "5">>)>>,
           <<"capabilities", Obj(<< <<"vision", Bool(TRUE)>>, <<"reasoning", Bool(TRUE)>> >>)>>,
           <<"iq", Num(5)>>, <<"speed", Num(4)>>,
           <<"metrics", Obj(<< <<"contextWindow", Num(4000)>> >>)>>,
           <<"releaseDate", Str(<<"2", "0", "2", "5", "-", "0", "8", "-", "0", "7">>)>>,
           <<"status", Str(s_active)>>,
           <<"config", Obj(<< <<"mode", Str(<<"json">>)>> >>)>> >>)

F_grok ==
    Obj(<< <<"id", Str(<<"aa-2">>)>>, <<"provider", Str(s_xai)>>, <<"value", Str(s_grok)>>,
           <<"name", Str(<<"G", "r", "o", "k">>)>>, <<"alias", Str(<<"g", "r", "o", "k">>)>>,
           <<"capabilities", Obj(<< <<"vision", Bool(TRUE)>>, <<"reasoning", Bool(FALSE)>> >>)>>,
           <<"iq", Num(4)>>, <<"speed", Num(2)>>,
           <<"metrics", Obj(<< <<"contextWindow", Num(1000)>> >>)>>,
           <<"releaseDate", Str(<<"2", "0", "2", "4", "-", "1", "2", "-", "3", "1">>)>>,
           <<"status", Str(s_beta)>> >>)

\* a model with no alias, no capabilities, no context window and a release
\* date that is no date
F_glm ==
    Obj(<< <<"id", Str(<<"aa-3">>)>>, <<"provider", Str(s_zai)>>, <<"value", Str(s_glm)>>,
           <<"name", Str(<<"G", "L", "M">>)>>,
           <<"iq", Num(2)>>,
           <<"metrics", Obj(<< <<"intelligenceIndex", Num(40)>> >>)>>,
           <<"releaseDate", Str(<<"s", "o", "o", "n">>)>>,
           <<"status", Str(s_active)>>,
           <<"config", Obj(<< <<"mode", Str(<<"auto">>)>> >>)>> >>)

\* a model with the required fields and an alias only
F_llama ==
    Obj(<< <<"id", Str(<<"aa-4">>)>>, <<"provider", Str(s_meta)>>, <<"value", Str(s_llama)>>,
           <<"name", Str(<<"L", "l", "a", "m", "a">>)>>, <<"alias", Str(<<"h", "e", "r", "d">>)>> >>)

Catalogs ==
    { <<F_gpt5, F_grok, F_glm, F_llama>>,
      <<F_llama, F_glm, F_grok, F_gpt5>>,
      <<F_grok, F_gpt5>> }

\* the predicates a ModelSearchQuery is made of, as <<field, value>>
PredicatePool ==
    { <<"name", Str(<<"g", "p", "t">>)>>, <<"name", Str(<<" ", " ", "G", "P", "T", " ">>)>>, <<"name", Str(<<" ", " ", " ">>)>>,
      <<"name", Arr(<<Str(<<>>), Str(<<"h", "e", "r", "d">>)>>)>>,
      <<"name", Arr(<<Str(<<"r", "o", "k">>), Str(<<"g", "l", "m">>)>>)>>,
      <<"name", Arr(<<Str(<<"z", "z">>), Str(<<" ">>)>>)>>,
      <<"provider", Str(s_openai)>>,
      <<"provider", Arr(<<Str(s_openai), Str(s_xai)>>)>>,
      <<"provider", Arr(<<>>)>>,
      <<"capability", Str(<<"vision">>)>>,
      <<"capability", Arr(<<Str(<<"vision">>), Str(<<"reasoning">>)>>)>>,
      <<"capability", Str(<<"audio">>)>>,
      <<"status", Str(s_active)>>,
      <<"status", Arr(<<Str(s_active), Str(s_beta)>>)>>,
      <<"status", Str(<<"deprecated">>)>>,
      <<"releaseDateFrom", Str(<<"2", "0", "2", "5", "-", "0", "1", "-", "0", "1">>)>>,
      <<"releaseDateFrom", Str(<<"2", "0", "2", "4", "-", "1", "2", "-", "3", "1">>)>>,
      <<"releaseDateFrom", Str(<<"g", "a", "r", "b", "a", "g", "e">>)>>,
      <<"releaseDateTo", Str(<<"2", "0", "2", "5", "-", "0", "8", "-", "0", "7">>)>>,
      <<"releaseDateTo", Str(<<"2", "0", "2", "4", "-", "1", "2", "-", "3", "1">>)>>,
      <<"minIq", Num(4)>>, <<"minIq", Num(0)>>,
      <<"minSpeed", Num(3)>>, <<"minSpeed", Num(0)>>,
      <<"minContextWindow", Num(1000)>>, <<"minContextWindow", Num(0)>>,
      <<"mode", Str(<<"json">>)>>, <<"mode", Str(<<"auto">>)>> }

InitFilter ==
    /\ catalog \in Catalogs
    /\ asked = Obj(<<>>)
    /\ answer = filterModels(catalog, Obj(<<>>))
    /\ ServerIdle
    /\ TagsIdle
    /\ EtagIdle
    /\ OverridesIdle
    /\ RestIdle

\* filterModels(catalog, query) for the query with one more predicate
Refine ==
    /\ Len(asked.o) < MaxPredicates
    /\ \E p \in PredicatePool :
          /\ ~HasKey(asked, p[1])
          /\ asked' = Set(asked, p[1], p[2])
          /\ answer' = filterModels(catalog, asked')
    /\ UNCHANGED <<catalog, serverVars, tagVars, etagVars, overrideVars, restVars>>

NextFilter == Refine

SpecFilter == InitFilter /\ [][NextFilter]_vars

(***************************************************************************)
(* Properties of the query engine.                                         *)
(***************************************************************************)
\* the query made of the i-th predicate of the query asked
OnlyPredicate(i) == Obj(<<asked.o[i]>>)

\* the model satisfies the i-th predicate of the query asked: it is what
\* filterModels returns for the model and that predicate alone
SatisfiesAlone(m, i) == filterModels(<<m>>, OnlyPredicate(i)) = <<m>>

\* C13: filterModels returns exactly the models that satisfy every predicate
\* present in the query (AND): no predicate, no constraint, and a query with
\* no predicate returns every model.
C13_PredicatesCompose ==
    /\ answer = SelectSeq(catalog,
                          LAMBDA m : \A i \in 1..Len(asked.o) : SatisfiesAlone(m, i))
    /\ asked.o = <<>> => answer = catalog
    /\ HasKey(asked, "mode")
       => \A i \in 1..Len(catalog) :
             (\E j \in 1..Len(answer) : answer[j] = catalog[i])
             => Get(Get(catalog[i], "config"), "mode") = Get(asked, "mode")

\* two predicates that each keep more models than both together
C13_Witness ==
    /\ Len(asked.o) = 2
    /\ answer # <<>>
    /\ \A i \in 1..2 : Len(filterModels(catalog, OnlyPredicate(i))) > Len(answer)

InAnswer(m) == \E j \in 1..Len(answer) : answer[j] = m

InCatalog(m) == \E j \in 1..Len(catalog) : catalog[j] = m

\* the values a filter field lists: the items of a list, or the one value
Listed(v) == IF v.t = "array" THEN {v.o[i][2] : i \in 1..Len(v.o)} ELSE {v}

HasCapability(m, c) == Get(Get(m, "capabilities"), c.s[1]) = Bool(TRUE)

\* C14: inside one filter field, listed capabilities are all required (AND),
\* listed providers and listed statuses are alternatives (OR): a model is
\* returned only if it has every listed capability, one of the listed
\* providers and one of the listed statuses, and when the field is the only
\* predicate of the query every such model is returned.
C14_ListSemantics ==
    /\ HasKey(asked, "capability")
       => \A i \in 1..Len(catalog) :
             LET m == catalog[i]
                 all == \A c \in Listed(Get(asked, "capability")) : HasCapability(m, c)
             IN  /\ InAnswer(m) => all
                 /\ (Len(asked.o) = 1 /\ all) => InAnswer(m)
    /\ HasKey(asked, "provider")
       => \A i \in 1..Len(catalog) :
             LET m == catalog[i]
                 some == Get(m, "provider") \in Listed(Get(asked, "provider"))
             IN  /\ InAnswer(m) => some
                 /\ (Len(asked.o) = 1 /\ some) => InAnswer(m)
    /\ HasKey(asked, "status")
       => \A i \in 1..Len(catalog) :
             LET m == catalog[i]
                 some == Get(m, "status") \in Listed(Get(asked, "status"))
             IN  /\ InAnswer(m) => some
                 /\ (Len(asked.o) = 1 /\ some) => InAnswer(m)

\* two capabilities asked for, and a model with one of them only left out,
\* beside two providers asked for and a model of each returned
C14_Witness ==
    /\ HasKey(asked, "capability") /\ HasKey(asked, "provider")
    /\ Cardinality(Listed(Get(asked, "capability"))) = 2
    /\ Cardinality(Listed(Get(asked, "provider"))) = 2
    /\ answer # <<>>
    /\ \E i \in 1..Len(catalog) :
          /\ ~InAnswer(catalog[i])
          /\ Get(catalog[i], "provider") \in Listed(Get(asked, "provider"))
          /\ \E c \in Listed(Get(asked, "capability")) : HasCapability(catalog[i], c)

\* the text holds the term somewhere, letter case apart
HoldsTerm(text, term) ==
    \E at \in 0..(Len(text) - Len(term)) :
        \A k \in 1..Len(term) : FoldCase(text[at + k]) = FoldCase(term[k])

\* the non-blank terms of a name filter, without the blanks around them
NameTerms(v) == {Inner(t.s, {" "}) : t \in Listed(v)} \ {<<>>}

\* one of the terms is in the name, the value or the alias of the model
NameHit(m, terms) ==
    \E t \in terms : \E f \in {"name", "value", "alias"} :
        Get(m, f).t = "string" /\ HoldsTerm(Get(m, f).s, t)

\* C15: a model passes the name filter exactly when a non-blank term of it,
\* trimmed, is in the name, the value or the alias of the model, letter case
\* apart; blank terms are ignored and a filter of blank terms only is no
\* constraint.
C15_NameFilter ==
    HasKey(asked, "name")
    => LET terms == NameTerms(Get(asked, "name"))
       IN  \A i \in 1..Len(catalog) :
              LET m == catalog[i]
                  pass == terms = {} \/ NameHit(m, terms)
              IN  /\ InAnswer(m) => pass
                  /\ (Len(asked.o) = 1 /\ pass) => InAnswer(m)

\* a list with a blank term and a term found in the alias of a model only,
\* which is returned while other models are not
C15_Witness ==
    /\ Len(asked.o) = 1 /\ HasKey(asked, "name")
    /\ Get(asked, "name").t = "array"
    /\ \E t \in Listed(Get(asked, "name")) : Inner(t.s, {" "}) = <<>>
    /\ Len(answer) < Len(catalog)
    /\ \E j \in 1..Len(answer) :
          LET m == answer[j]
          IN  /\ NameHit([m EXCEPT !.o = SelectSeq(@, LAMBDA p : p[1] = "alias")],
                         NameTerms(Get(asked, "name")))
              /\ ~NameHit([m EXCEPT !.o = SelectSeq(@, LAMBDA p : p[1] # "alias")],
                          NameTerms(Get(asked, "name")))

\* the day a YYYY-MM-DD text names, counted so that later days are larger;
\* -1 for a value that is no such text
DayOf(v) ==
    IF /\ v.t = "string" /\ Len(v.s) = 10
       /\ v.s[5] = "-" /\ v.s[8] = "-"
       /\ \A i \in {1, 2, 3, 4, 6, 7, 9, 10} : IsDigit(v.s[i])
    THEN (DigitsValue(SubSeq(v.s, 1, 4), 0) * 12 + DigitsValue(SubSeq(v.s, 6, 7), 0)) * 31
         + DigitsValue(SubSeq(v.s, 9, 10), 0)
    ELSE -1

OnlyDates == \A i \in 1..Len(asked.o) : asked.o[i][1] \in {"releaseDateFrom", "releaseDateTo"}

\* C16 as stated: when releaseDateFrom or releaseDateTo is set, the models
\* returned have a parseable release date within the bounds set, both
\* inclusive, and a model with no parseable release date is never returned.
C16_RangeWhenSet ==
    (HasKey(asked, "releaseDateFrom") \/ HasKey(asked, "releaseDateTo"))
    => \A i \in 1..Len(catalog) :
          LET m == catalog[i]
              d == DayOf(Get(m, "releaseDate"))
              pass == /\ d >= 0
                      /\ HasKey(asked, "releaseDateFrom")
                         => DayOf(Get(asked, "releaseDateFrom")) <= d
                      /\ HasKey(asked, "releaseDateTo")
                         => d <= DayOf(Get(asked, "releaseDateTo"))
          IN  /\ InAnswer(m) => pass
              /\ (OnlyDates /\ pass) => InAnswer(m)

\* C16 as amended: a bound counts when it is set to a parseable date. When
\* one does, a model is returned exactly when it has a parseable release date
\* within the bounds that count, both inclusive; when the bounds set are all
\* unparseable the range imposes no constraint.
C16_DateRange ==
    LET from == DayOf(Get(asked, "releaseDateFrom"))
        to == DayOf(Get(asked, "releaseDateTo"))
    IN  /\ (from >= 0 \/ to >= 0)
           => \A i \in 1..Len(catalog) :
                 LET m == catalog[i]
                     d == DayOf(Get(m, "releaseDate"))
                     pass == d >= 0 /\ (from >= 0 => from <= d) /\ (to >= 0 => d <= to)
                 IN  /\ InAnswer(m) => pass
                     /\ (OnlyDates /\ pass) => InAnswer(m)
        /\ (from < 0 /\ to < 0 /\ OnlyDates) => answer = catalog

\* both bounds set, a model released on the day of a bound returned and a
\* model with no release date left out
C16_Witness ==
    /\ OnlyDates
    /\ DayOf(Get(asked, "releaseDateFrom")) >= 0 /\ DayOf(Get(asked, "releaseDateTo")) >= 0
    /\ \E j \in 1..Len(answer) :
          DayOf(Get(answer[j], "releaseDate")) = DayOf(Get(asked, "releaseDateFrom"))
    /\ \E i \in 1..Len(catalog) :
          ~InAnswer(catalog[i]) /\ Get(catalog[i], "releaseDate").t = "undefined"

\* a number, or 0 for a value that is absent
OrZero(v) == IF v.t = "number" THEN v.n ELSE 0

\* the value a minimum threshold is compared with
Measured(m, k) ==
    CASE k = "minIq" -> OrZero(Get(m, "iq"))
      [] k = "minSpeed" -> OrZero(Get(m, "speed"))
      [] k = "minContextWindow" -> OrZero(Get(Get(m, "metrics"), "contextWindow"))

\* C17: with minIq, minSpeed or minContextWindow set to b, a model is
\* returned exactly when its iq, speed or context window, 0 when absent, is
\* at least b: minIq = 4 over iq 2, 4, 5 and absent returns the models with
\* iq 4 and 5, and a bound of 0 excludes no model.
C17_MinimumThresholds ==
    /\ \A k \in {"minIq", "minSpeed", "minContextWindow"} :
          HasKey(asked, k)
          => \A i \in 1..Len(catalog) :
                LET m == catalog[i]
                    pass == Measured(m, k) >= Get(asked, k).n
                IN  /\ InAnswer(m) => pass
                    /\ (Len(asked.o) = 1 /\ pass) => InAnswer(m)
    /\ (asked = Obj(<< <<"minIq", Num(4)>> >>) /\ Len(catalog) = 4)
       => /\ Len(answer) = 2
          /\ {Get(answer[j], "iq") : j \in 1..Len(answer)} = {Num(4), Num(5)}
    /\ (Len(asked.o) = 1 /\ asked.o[1][2] = Num(0)) => answer = catalog

\* minIq = 4 over models with iq 2, 4, 5 and absent
C17_Witness ==
    /\ asked = Obj(<< <<"minIq", Num(4)>> >>)
    /\ {Get(catalog[i], "iq") : i \in 1..Len(catalog)} = {Num(2), Num(4), Num(5), Undef}
    /\ Len(answer) = 2

\* a is b with some of its items left out
IsSubsequence(a, b) ==
    \E at \in [1..Len(a) -> 1..Len(b)] :
        /\ \A i \in 1..Len(a) : b[at[i]] = a[i]
        /\ \A i, j \in 1..Len(a) : i < j => at[i] < at[j]

\* C18: filterModels changes neither the list it is given nor the models in
\* it, and returns the matching models in the order they have in that list:
\* the result is a subsequence of the input.
C18_InputKeptOrderKept ==
    /\ [](Len(answer) <= Len(catalog) /\ IsSubsequence(answer, catalog))
    /\ [][catalog' = catalog]_vars

\* two or more models returned, and some left out, of a list that starts with
\* the model that sorts last
C18_Witness ==
    /\ Len(catalog) = 4 /\ catalog[1] = F_llama
    /\ Len(answer) \in {2, 3}
    /\ asked.o # <<>>

(***************************************************************************)
(* Properties of /v1/models/search.                                        *)
(***************************************************************************)
\* a text that is no number: it is not blank and there is no digit in it
NotANumber(v) ==
    /\ v.t = "string"
    /\ Inner(v.s, {" "}) # <<>>
    /\ \A i \in 1..Len(v.s) : ~IsDigit(v.s[i])

\* the query string without one of its parameters
WithoutParameter(query, k) == Obj(SelectSeq(query.o, LAMBDA p : p[1] # k))

\* C19: a search request whose minIq, minSpeed or minContextWindow is no
\* number is answered with 200 and with the result of the same request
\* without that parameter.
C19_InvalidThresholdIgnored ==
    (resp.endpoint = "/v1/models/search" /\ resp.loaded # <<>>)
    => \A k \in {"minIq", "minSpeed", "minContextWindow"} :
          NotANumber(Get(resp.query, k))
          => /\ resp.status = 200
             /\ resp.hasBody
             /\ resp.body = StringifyArray(
                    filterModels(resp.loaded[1].models,
                                 SearchQueryOf(WithoutParameter(resp.query, k))))

\* a request with a provider, a minIq that is a number and a
\* minContextWindow that is none, answered with some models and not all
C19_Witness ==
    /\ resp.endpoint = "/v1/models/search" /\ resp.loaded # <<>>
    /\ NotANumber(Get(resp.query, "minContextWindow"))
    /\ HasKey(resp.query, "provider")
    /\ resp.status = 200
    /\ resp.body # StringifyArray(<<>>)
    /\ resp.body # StringifyArray(resp.loaded[1].models)

(***************************************************************************)
(* The order of the arrays of a manifest.                                  *)
(***************************************************************************)
\* the models are in non-decreasing (provider, value) order
ModelsInOrder(list) ==
    \A i \in 1..(Len(list) - 1) :
        LET p == localeCompare(Get(list[i], "provider").s, Get(list[i + 1], "provider").s)
        IN  \/ p < 0
            \/ /\ p = 0
               /\ localeCompare(Get(list[i], "value").s, Get(list[i + 1], "value").s) <= 0

\* the providers are in non-decreasing display-name order
ProvidersInOrder(list) ==
    \A i \in 1..(Len(list) - 1) :
        localeCompare(Get(list[i], "name").s, Get(list[i + 1], "name").s) <= 0

\* the items of a list at the places in S, in the order of the list
Picked(list, S) == SelectSeq([i \in 1..Len(list) |-> <<i, list[i]>>], LAMBDA p : p[1] \in S)

\* the JSON text of an array whose items have the texts given, each text
\* paired with its place
RECURSIVE JoinedTexts(_, _)
JoinedTexts(some, first) ==
    IF some = <<>> THEN <<>>
    ELSE (IF first THEN <<>> ELSE <<",">>)
         \o Head(some)[2] \o JoinedTexts(Tail(some), FALSE)

\* the JSON text is that of some of the models of the list, in its order
ServesInOrder(body, list) ==
    LET texts == [i \in 1..Len(list) |-> Stringify(list[i])]
    IN  \E S \in SUBSET (1..Len(list)) :
           body = <<"[">> \o JoinedTexts(Picked(texts, S), TRUE) \o <<"]">>

\* the models, and the providers, of a list by what identifies them
ModelOrder(list) ==
    [i \in 1..Len(list) |-> <<Get(list[i], "id"), Get(list[i], "provider"), Get(list[i], "value")>>]

ProviderOrder(list) == [i \in 1..Len(list) |-> Get(list[i], "value")]

\* C20: in every manifest of a resolution run the models are in
\* non-decreasing (provider, value) order and the providers in non-decreasing
\* display-name order, the order being that of localeCompare; the manifest
\* read back from the store and the arrays served keep that order.
C20_ManifestSorted ==
    /\ \A r \in runs :
          ModelsInOrder(r.manifest.models) /\ ProvidersInOrder(r.manifest.providers)
    /\ kv # <<>>
       => /\ ModelsInOrder(kv[1].models) /\ ProvidersInOrder(kv[1].providers)
          /\ \E r \in runs : /\ ModelOrder(kv[1].models) = ModelOrder(r.manifest.models)
                             /\ ProviderOrder(kv[1].providers)
                                = ProviderOrder(r.manifest.providers)
    /\ (resp.status = 200 /\ resp.hasBody /\ resp.loaded # <<>>)
       => LET m == resp.loaded[1]
          IN  /\ ModelsInOrder(m.models) /\ ProvidersInOrder(m.providers)
              /\ resp.endpoint = "/v1/manifest" => resp.body = StringifyManifest(m)
              /\ resp.endpoint = "/v1/providers" => resp.body = StringifyArray(m.providers)
              /\ resp.endpoint \in {"/v1/providers/:providerId/models", "/v1/models/search"}
                 => ServesInOrder(resp.body, m.models)

\* a run over an upstream that lists a model of xai before one of openai,
\* and its models served by a search
C20_Witness ==
    /\ \E r \in runs :
          /\ Len(r.data) = 2
          /\ Get(transformAAModel(r.data[1]), "provider") = Str(s_xai)
          /\ Get(r.manifest.models[1], "provider") = Str(s_openai)
          /\ kv # <<>> /\ ModelOrder(kv[1].models) = ModelOrder(r.manifest.models)
    /\ resp.endpoint = "/v1/models/search" /\ resp.status = 200
    /\ resp.body = StringifyArray(resp.loaded[1].models)

(***************************************************************************)
(* Properties of the resolution run and of the store.                      *)
(***************************************************************************)
\* the stored value is a manifest with all its parts
FullyFormed(manifest) ==
    /\ DOMAIN manifest = {"version", "etag", "generatedAt", "providers", "models"}
    /\ Len(manifest.version) = Len(<<"v", "1", ".">>) + VersionHexLen
    /\ Len(manifest.etag) = EtagHexLen + 2

\* C22: a resolution run that fails, for want of the API key, because the
\* upstream did not answer ok or because the transformation threw, leaves
\* the value under the KV key 'manifest' as it was, and the store only ever
\* holds a fully formed manifest, the one some successful run produced.
C22_FailedRunKeepsStore ==
    /\ [][(clock' # clock /\ lastRun' = "failed") => kv' = kv]_vars
    /\ [](kv # <<>> => /\ FullyFormed(kv[1])
                       /\ \E r \in runs : kv[1] = ManifestRoundTrip(r.manifest))

\* a run failed on a body that does not parse, after one that stored a manifest
C22_Witness ==
    /\ lastRun = "failed"
    /\ upstreamOk
    /\ kv # <<>>
    /\ clock = 2

\* the 200 body of a conditional endpoint for a stored manifest
BodyOf(endpoint, providerId, manifest) ==
    FullBody([endpoint |-> endpoint, providerId |-> providerId, loaded |-> <<manifest>>])

StampedAs(manifest, other) == [manifest EXCEPT !.generatedAt = other.generatedAt]

SourceKeyOf(o) ==
    <<Get(Get(o, "inheritFrom"), "provider").s, Get(Get(o, "inheritFrom"), "value").s>>

\* the overrides before place j that target the key override j inherits from
PatchesOfSource(j) ==
    {i \in 1..(j - 1) :
        TargetOf(overrides.models[i]) = SourceKeyOf(overrides.models[j])}

\* C29: an override that names in inheritFrom a key earlier overrides of the
\* list target is resolved against the base dataset: when the base dataset
\* has a model at that key, the fields the override does not set are those
\* of the base model, whatever the earlier overrides set; when it has none,
\* the model the earlier overrides made is no source and the override is
\* handled as one with a dangling reference.
C29_InheritFromBaseOnly ==
    (resolved.done /\ overrides.models # <<>>)
    => LET j == Len(overrides.models)
           O == overrides.models[j]
           t == TargetOf(O)
           R == ResolvedAt(t[1], t[2])
           name == IF SetsField(O, "name") THEN Get(O, "name").s ELSE t[2]
       IN  (SetsField(O, "inheritFrom") /\ PatchesOfSource(j) # {})
           => IF Inherits(O)
              THEN \A f \in PatchFields \cup {"metrics"} :
                      ~SetsField(O, f) => Get(R, f) = Get(SourceOf(O), f)
              ELSE IF BeforeLast.t # "undefined" THEN PatchedOnTop(O, BeforeLast, R)
              ELSE PatchedOnTop(O, Obj(<< <<"id", Str(CustomIdText(t))>>,
                                          <<"name", Str(name)>>,
                                          <<"alias", Str(ShortName(name))>> >>), R)

\* a clone made after an override gave its source another iq keeps the iq
\* of the base model
C29_Witness ==
    /\ resolved.done
    /\ Len(overrides.models) = 2
    /\ Inherits(overrides.models[2])
    /\ PatchesOfSource(2) = {1}
    /\ SetsField(overrides.models[1], "iq")
    /\ Get(overrides.models[1], "iq") # Get(SourceOf(overrides.models[2]), "iq")
    /\ Get(ResolvedAt(TargetOf(overrides.models[2])[1], TargetOf(overrides.models[2])[2]), "iq")
       = Get(SourceOf(overrides.models[2]), "iq")

\* an override names as its source a model only an earlier override made,
\* and leaves a minimal model without the iq of that model
C29_WitnessMade ==
    /\ resolved.done
    /\ Len(overrides.models) = 2
    /\ Dangling(overrides.models[2])
    /\ PatchesOfSource(2) = {1}
    /\ SetsField(overrides.models[1], "iq")
    /\ Get(ResolvedAt(TargetOf(overrides.models[2])[1], TargetOf(overrides.models[2])[2]),
           "iq").t = "undefined"

(***************************************************************************)
(* The scoring functions on their own.                                     *)
(***************************************************************************)
\* the largest measurement given to the scoring functions
MaxMeasure == 301

\* the measurements: the whole numbers at most one away from zero or from a
\* threshold of either scale
MeasureValues ==
    {n \in -1..MaxMeasure :
        \E th \in {0, 25, 35, 45, 50, 55, 65, 100, 200, 300} : n - th \in -1..1}

\* what a caller may pass: nothing, NaN or a number
ScoreInputs == {Undef, NaN} \cup {Num(n) : n \in MeasureValues}

InitScore ==
    /\ measured \in ScoreInputs \X ScoreInputs
    /\ scored = <<>>
    /\ ServerIdle
    /\ TagsIdle
    /\ EtagIdle
    /\ OverridesIdle
    /\ FilterIdle
    /\ CorsIdle
    /\ StoreIdle
    /\ ClientIdle

\* scoreIq and scoreSpeed of both measurements
Score ==
    /\ scored = <<>>
    /\ scored' = [i \in 1..2 |-> [iq |-> scoreIq(measured[i]),
                                  speed |-> scoreSpeed(measured[i])]]
    /\ UNCHANGED <<measured, serverVars, tagVars, etagVars, overrideVars, filterVars,
                   corsVars, storeVars, clientVars>>

NextScore == Score

SpecScore == InitScore /\ [][NextScore]_vars

(***************************************************************************)
(* Properties of the scoring functions.                                    *)
(***************************************************************************)
IqThresholds == {25, 35, 45, 55, 65}

SpeedThresholds == {25, 50, 100, 200, 300}

\* the thresholds of a scale that a measurement reaches
Reached(v, thresholds) ==
    IF v.t = "number" THEN {th \in thresholds : v.n >= th} ELSE {}

EndsWith(cs, suffix) ==
    Len(cs) >= Len(suffix) /\ SubSeq(cs, Len(cs) - Len(suffix) + 1, Len(cs)) = suffix

\* raw.split(',').map(o => o.trim()).filter(Boolean)
AllowedPatterns(raw) ==
    LET parts == Split(raw, ",")
        trimmed == [i \in 1..Len(parts) |-> Trim(parts[i])]
    IN  SelectSeq(trimmed, LAMBDA p : p # <<>>)

\* the pattern lets the origin in
PatternAllows(pattern, o) ==
    \/ pattern = o
    \/ /\ StartsWith(pattern, <<"*", ".">>)
       /\ EndsWith(o, SliceFrom(pattern, 2))

getAllowedOrigin(header, setting) ==
    IF ~Truthy(header) THEN FALSE
    ELSE LET raw == IF setting.t = "undefined" THEN Undef ELSE Str(Trim(setting.s))
         IN  IF ~Truthy(raw) THEN FALSE
             ELSE IF raw.s = <<"*">> THEN TRUE
             ELSE LET list == AllowedPatterns(raw.s)
                  IN  \E i \in 1..Len(list) : PatternAllows(list[i], header.s)

s_https == "https://"
s_a_io == <<"a", ".", "i", "o">>
s_b_io == <<"b", ".", "i", "o">>

\* the Origin headers of the requests: none, an empty one, the domain
\* itself, two hosts under it, a host whose name only ends like it, another
\* domain
OriginHeaders ==
    { Undef, Str(<<>>),
      Str(<<s_https>> \o s_a_io),
      Str(<<s_https, "x", ".">> \o s_a_io),
      Str(<<s_https, "y", ".", "x", ".">> \o s_a_io),
      Str(<<s_https, "x">> \o s_a_io),
      Str(<<s_https>> \o s_b_io) }

\* the values of env.ALLOWED_ORIGINS
OriginSettings ==
    { Undef, Str(<<>>), Str(<<" ">>), Str(<<"*">>), Str(<<" ", "*", " ">>),
      Str(<<s_https>> \o s_a_io),
      Str(<<"*", ".">> \o s_a_io),
      Str(<<s_https>> \o s_b_io \o <<",", " ", "*", ".">> \o s_a_io),
      Str(<<s_https, "*", ".">> \o s_a_io),
      Str(<<s_https>> \o s_b_io \o <<",", ",", s_https, "x", ".">> \o s_a_io),
      Str(<<"*", ",", s_https>> \o s_b_io) }

InitCors ==
    /\ allowedOrigins \in OriginSettings
    /\ origin \in OriginHeaders
    /\ allowed = <<>>
    /\ ServerIdle
    /\ TagsIdle
    /\ EtagIdle
    /\ OverridesIdle
    /\ FilterIdle
    /\ ScoreIdle
    /\ StoreIdle
    /\ ClientIdle

\* the cors plugin asks getAllowedOrigin about the request
CheckOrigin ==
    /\ allowed = <<>>
    /\ allowed' = <<getAllowedOrigin(origin, allowedOrigins)>>
    /\ UNCHANGED <<allowedOrigins, origin, serverVars, tagVars, etagVars, overrideVars,
                   filterVars, scoreVars, storeVars, clientVars>>

NextCors == CheckOrigin

SpecCors == InitCors /\ [][NextCors]_vars

(***************************************************************************)
(* Properties of the origin check.                                         *)
(***************************************************************************)
\* the entries of ALLOWED_ORIGINS
ListedOrigins ==
    IF allowedOrigins.t = "undefined" THEN {}
    ELSE {Inner(p, {" "}) : p \in {Split(allowedOrigins.s, ",")[i] :
                                      i \in 1..Len(Split(allowedOrigins.s, ","))}}

\* the host of an origin: what follows the scheme
HostOf(o) == SubSeq(o, 2, Len(o))

\* host is a subdomain of domain: it ends with a dot and the domain
SubdomainOf(host, domain) ==
    /\ domain # <<>>
    /\ Len(host) > Len(domain) + 1
    /\ SubSeq(host, Len(host) - Len(domain), Len(host)) = <<".">> \o domain

\* ALLOWED_ORIGINS is unset or empty
NothingAllowed == allowedOrigins.t = "undefined" \/ Inner(allowedOrigins.s, {" "}) = <<>>

\* C25: getAllowedOrigin accepts a request only if ALLOWED_ORIGINS is '*',
\* or the Origin equals a listed origin, or the host of the Origin is a
\* subdomain of the domain of a listed '*.domain' pattern; it refuses a
\* request without an Origin header and every request when ALLOWED_ORIGINS
\* is unset or empty.
C25_OriginCheck ==
    allowed # <<>>
    => /\ allowed[1]
          => /\ origin.t = "string"
             /\ \/ Inner(allowedOrigins.s, {" "}) = <<"*">>
                \/ origin.s \in ListedOrigins
                \/ \E p \in ListedOrigins :
                      /\ Len(p) > 2 /\ SubSeq(p, 1, 2) = <<"*", ".">>
                      /\ SubdomainOf(HostOf(origin.s), SubSeq(p, 3, Len(p)))
       /\ (origin.t = "undefined" \/ NothingAllowed) => ~allowed[1]

(***************************************************************************)
(* The readers of the store: KVRegistry (client/src/kv.ts) and the         *)
(* loadManifest of the server.                                             *)
(***************************************************************************)
\* the most characters a stored text lost at its end
MaxCut == 2

\* the manifests a resolution run may have stored
StoredManifests == {fetchAndTransformManifest(aaData, 0) : aaData \in Datasets}

\* what the KV binding returns when no run has written a manifest: nothing,
\* an empty text, a text that is no JSON
StoredValues == {Undef, Str(<<>>), Str(<<"n", "o", "t", "-", "j", "s", "o", "n">>)}

\* the JSON text of the manifest without its last k characters
CutText(m, k) ==
    LET text == StringifyManifest(m)
    IN  Str(SubSeq(text, 1, Len(text) - k))

\* JSON.parse on the texts of the model: the value whose JSON text the text
\* is, <<>> when it is the text of none (SyntaxError); the only JSON text a
\* store holds is the whole text of the manifest written to it
JsonParse(text) ==
    IF written # <<>> /\ StringifyManifest(written[1]) = text
    THEN <<ManifestRoundTrip(written[1])>>
    ELSE <<>>

\* a call that returned value, and one that threw
Returned(value) == [threw |-> FALSE, value |-> <<value>>, message |-> <<>>]
Threw(message) == [threw |-> TRUE, value |-> <<>>, message |-> <<message>>]

\* readManifestOrThrow giving an empty manifest for a missing or broken one
readManifestOrThrow_empty(text) ==
    IF ~Truthy(text) \/ JsonParse(text.s) = <<>>
    THEN Returned([version |-> <<>>, etag |-> <<>>, generatedAt |-> <<>>,
                   providers |-> <<>>, models |-> <<>>])
    ELSE Returned(JsonParse(text.s)[1])

readManifestOrThrow(text) ==
    IF ~Truthy(text) THEN Threw("Manifest not found in KV")
    ELSE IF JsonParse(text.s) = <<>> THEN Threw("Manifest in KV is not valid JSON")
    ELSE Returned(JsonParse(text.s)[1])

\* createResponse(execute), for what execute did
createResponse(from, outcome) ==
    IF outcome.threw
    THEN [NoReply EXCEPT !.from = from, !.error = outcome.message]
    ELSE [NoReply EXCEPT !.from = from, !.data = outcome.value, !.cached = TRUE]

\* manifest.models.find(item => item.provider === provider && item.value === value)
FindModel(list, provider, value) ==
    LET hits == {i \in 1..Len(list) : /\ Get(list[i], "provider") = Str(provider)
                                      /\ Get(list[i], "value") = Str(value)}
    IN  IF hits = {} THEN Undef ELSE list[CHOOSE i \in hits : \A j \in hits : i <= j]

\* withManifest(project), project being given by the name of the method
withManifest(method, provider, value, query) ==
    LET read == readManifestOrThrow(stored)
        manifest == read.value[1]
    IN  createResponse(method,
           IF read.threw THEN read
           ELSE CASE method = "getProviders" -> Returned(manifest.providers)
                  [] method = "getModels" -> Returned(manifest.models)
                  [] method = "getProviderModels" ->
                        Returned(ModelsOfProvider(manifest, provider))
                  [] method = "getModel" ->
                        IF FindModel(manifest.models, provider, value).t = "undefined"
                        THEN Threw("Model not found for provider")
                        ELSE Returned(FindModel(manifest.models, provider, value))
                  [] OTHER -> Returned(filterModels(manifest.models, query)))

\* the loadManifest of the server and the body a handler makes of the manifest
\* for a request without If-None-Match; Elysia answers a throw with 500
ServerRead(endpoint, provider, query) ==
    IF ~Truthy(stored) \/ JsonParse(stored.s) = <<>>
    THEN [NoReply EXCEPT !.from = endpoint, !.status = 500,
                         !.body = <<"Manifest not found in KV storage">>]
    ELSE LET manifest == JsonParse(stored.s)[1]
         IN  [NoReply EXCEPT
                 !.from = endpoint, !.status = 200,
                 !.body = CASE endpoint = "/v1/manifest" -> StringifyManifest(manifest)
                            [] endpoint = "/v1/providers" -> StringifyArray(manifest.providers)
                            [] endpoint = "/v1/providers/:providerId/models" ->
                                  StringifyArray(ModelsOfProvider(manifest, provider))
                            [] endpoint = "/v1/version" -> StringifyVersion(manifest)
                            [] OTHER -> StringifyArray(filterModels(manifest.models,
                                                                    SearchQueryOf(query)))]

\* the queries given to KVRegistry.searchModels
RegistryQueries ==
    { Obj(<<>>),
      Obj(<< <<"capability", Str(<<"vision">>)>> >>),
      Obj(<< <<"provider", Str(s_meta)>> >>) }

InitStore ==
    /\ \/ written = <<>> /\ stored \in StoredValues
       \/ \E m \in StoredManifests, k \in 0..MaxCut :
             written = <<m>> /\ stored = CutText(m, k)
    /\ reply = NoReply
    /\ ServerIdle
    /\ TagsIdle
    /\ EtagIdle
    /\ OverridesIdle
    /\ FilterIdle
    /\ ScoreIdle
    /\ CorsIdle
    /\ ClientIdle

getManifest ==
    /\ reply = NoReply
    /\ reply' = createResponse("getManifest", readManifestOrThrow(stored))
    /\ UNCHANGED <<written, stored, serverVars, tagVars, etagVars, overrideVars, filterVars,
                   scoreVars, corsVars, clientVars>>

getProviders ==
    /\ reply = NoReply
    /\ reply' = withManifest("getProviders", <<>>, <<>>, Undef)
    /\ UNCHANGED <<written, stored, serverVars, tagVars, etagVars, overrideVars, filterVars,
                   scoreVars, corsVars, clientVars>>

getModels ==
    /\ reply = NoReply
    /\ reply' = withManifest("getModels", <<>>, <<>>, Undef)
    /\ UNCHANGED <<written, stored, serverVars, tagVars, etagVars, overrideVars, filterVars,
                   scoreVars, corsVars, clientVars>>

getProviderModels ==
    /\ reply = NoReply
    /\ \E provider \in ProviderIds :
          reply' = withManifest("getProviderModels", provider, <<>>, Undef)
    /\ UNCHANGED <<written, stored, serverVars, tagVars, etagVars, overrideVars, filterVars,
                   scoreVars, corsVars, clientVars>>

getModel ==
    /\ reply = NoReply
    /\ \E provider \in ProviderIds, value \in {s_gpt5, s_grok} :
          reply' = withManifest("getModel", provider, value, Undef)
    /\ UNCHANGED <<written, stored, serverVars, tagVars, etagVars, overrideVars, filterVars,
                   scoreVars, corsVars, clientVars>>

searchModels ==
    /\ reply = NoReply
    /\ \E query \in RegistryQueries :
          reply' = withManifest("searchModels", <<>>, <<>>, query)
    /\ UNCHANGED <<written, stored, serverVars, tagVars, etagVars, overrideVars, filterVars,
                   scoreVars, corsVars, clientVars>>

\* a request to an endpoint of the server over the same store
ServeStored ==
    /\ reply = NoReply
    /\ \E endpoint \in ConditionalEndpoints \cup {"/v1/models/search"},
          provider \in ProviderIds, query \in SearchQueries :
          reply' = ServerRead(endpoint, provider, query)
    /\ UNCHANGED <<written, stored, serverVars, tagVars, etagVars, overrideVars, filterVars,
                   scoreVars, corsVars, clientVars>>

NextStore ==
    \/ getManifest
    \/ getProviders
    \/ getModels
    \/ getProviderModels
    \/ getModel
    \/ searchModels
    \/ ServeStored

SpecStore == InitStore /\ [][NextStore]_vars

(***************************************************************************)
(* Properties of the readers of the store.                                 *)
(***************************************************************************)
RegistryReads ==
    {"getManifest", "getProviders", "getModels", "getProviderModels", "getModel",
     "searchModels"}

\* the store returned nothing, or a text that is not the JSON text of a value
NothingUsable ==
    \/ stored.t = "undefined"
    \/ stored.s = <<>>
    \/ written = <<>>
    \/ stored.s # StringifyManifest(written[1])

ServedManifests ==
    { ManifestRoundTrip(fetchAndTransformManifest(aaData, Len(aaData) - 2)) :
         aaData \in {<<AA_gpt5, AA_grok>>, <<AA_glm, AA_gpt5, AA_grok>>} }

\* the ModelSearchQuery values handed to searchModels
ClientQueries ==
    { Obj(<<>>),
      Obj(<< <<"name", Str(<<"g", "p", "t">>)>> >>),
      Obj(<< <<"provider", Str(s_openai)>>, <<"minIq", Num(4)>> >>),
      Obj(<< <<"minSpeed", Num(0)>> >>),
      Obj(<< <<"status", Str(<<"deprecated">>)>> >>),
      Obj(<< <<"name", Str(<<"g">>)>>,
             <<"releaseDateFrom", Str(<<"2", "0", "2", "5", "-", "0", "8", "-", "0", "1">>)>> >>) }

\* String(n) of a non-negative integer
RECURSIVE DecimalText(_)
DecimalText(n) ==
    IF n < 10 THEN <<Digits[n + 1]>>
    ELSE DecimalText(n \div 10) \o <<Digits[(n % 10) + 1]>>

\* the query parameters searchModels sends to /v1/models/search
SearchParams(query) ==
    Obj(<< <<"name", Get(query, "name")>>,
           <<"provider", Get(query, "provider")>>,
           <<"capability", Get(query, "capability")>>,
           <<"minIq", IF Get(query, "minIq").t # "undefined"
                      THEN Str(DecimalText(Get(query, "minIq").n)) ELSE Undef>>,
           <<"minSpeed", IF Get(query, "minSpeed").t # "undefined"
                         THEN Str(DecimalText(Get(query, "minSpeed").n)) ELSE Undef>> >>)

\* the cache holding the manifest and its tags
CacheOf(manifest) ==
    [manifest |-> <<manifest>>, version |-> <<manifest.version>>,
     etag |-> <<manifest.etag>>, generatedAt |-> <<manifest.generatedAt>>]

\* setMemoryCache(manifest) on the cache: the cache afterwards and the number
\* of calls of config.onUpdate
setMemoryCache(now, manifest) ==
    LET wasEmpty == now.manifest = <<>>
        versionChanged == now.version # <<manifest.version>>
        etagChanged == now.etag # <<manifest.etag>>
    IN  [cache |-> CacheOf(manifest),
         notified |-> IF wasEmpty \/ versionChanged \/ etagChanged THEN 1 ELSE 0]

\* the body of getManifest(options) on the cache, the request to
\* /v1/manifest succeeding when reachable
ManifestResult(now, forceRefresh, reachable) ==
    IF now.manifest # <<>> /\ ~forceRefresh
    THEN [cache |-> now, fetched |-> <<>>, notified |-> 0,
          data |-> now.manifest, error |-> FALSE, cached |-> TRUE]
    ELSE IF ~reachable
    THEN [cache |-> now, fetched |-> <<>>, notified |-> 0,
          data |-> <<>>, error |-> TRUE, cached |-> FALSE]
    ELSE LET set == setMemoryCache(now, served)
         IN  [cache |-> set.cache, fetched |-> <<served>>, notified |-> set.notified,
              data |-> <<served>>, error |-> FALSE, cached |-> FALSE]

\* the body of checkForUpdates(): the request to /v1/version succeeds when
\* reachable, the request to /v1/manifest when again
UpdateResult(now, reachable, again) ==
    IF ~reachable
    THEN [cache |-> now, fetched |-> <<>>, notified |-> 0, result |-> FALSE]
    ELSE IF now.version # <<>> /\ <<served.version>> # now.version
    THEN LET r == ManifestResult(now, TRUE, again)
         IN  [cache |-> r.cache, fetched |-> r.fetched, notified |-> r.notified,
              result |-> ~r.error]
    ELSE [cache |-> now, fetched |-> <<>>, notified |-> 0, result |-> FALSE]

InitClient ==
    /\ releases = ServedManifests
    /\ served \in releases
    /\ cache = NoCache
    /\ autoRefreshInterval \in {0, 600000}
    /\ ready = FALSE
    /\ refreshTimer = FALSE
    /\ stopped = FALSE
    /\ called = NoCall
    /\ ServerIdle
    /\ TagsIdle
    /\ EtagIdle
    /\ OverridesIdle
    /\ FilterIdle
    /\ ScoreIdle
    /\ CorsIdle
    /\ StoreIdle

\* a resolution run of the server replaces the manifest it holds
Publish ==
    /\ \E manifest \in releases \ {served} : served' = manifest
    /\ UNCHANGED <<releases, cache, autoRefreshInterval, ready, refreshTimer, stopped, called,
                   serverVars, tagVars, etagVars, overrideVars, filterVars, scoreVars,
                   corsVars, storeVars>>

\* the promise of initializePersistence() resolves, the storage holding
\* nothing or a manifest with its meta, and the callback the constructor
\* attached to it runs
initializePersistence ==
    /\ ~ready
    /\ ready' = TRUE
    /\ \E persisted \in {<<>>} \cup {<<m>> : m \in releases} :
          cache' = IF persisted = <<>> THEN cache ELSE CacheOf(persisted[1])
    /\ refreshTimer' = IF autoRefreshInterval > 0 THEN TRUE ELSE refreshTimer
    /\ UNCHANGED <<releases, served, autoRefreshInterval, stopped, called,
                   serverVars, tagVars, etagVars, overrideVars, filterVars, scoreVars,
                   corsVars, storeVars>>

LLMClient_getManifest ==
    /\ ready
    /\ called = NoCall
    /\ \E forceRefresh \in BOOLEAN, reachable \in BOOLEAN :
          LET r == ManifestResult(cache, forceRefresh, reachable)
          IN  /\ cache' = r.cache
              /\ called' = [NoCall EXCEPT !.op = "getManifest", !.by = "caller",
                                          !.reached = r.fetched # <<>>,
                                          !.fetched = r.fetched,
                                          !.notified = r.notified,
                                          !.error = r.error, !.cached = r.cached]
    /\ UNCHANGED <<releases, served, autoRefreshInterval, ready, refreshTimer, stopped,
                   serverVars, tagVars, etagVars, overrideVars, filterVars, scoreVars,
                   corsVars, storeVars>>

LLMClient_getVersion ==
    /\ ready
    /\ called = NoCall
    /\ \E reachable \in BOOLEAN :
          /\ cache' = IF reachable
                      THEN [cache EXCEPT !.version = <<served.version>>,
                                         !.etag = <<served.etag>>,
                                         !.generatedAt = <<served.generatedAt>>]
                      ELSE cache
          /\ called' = [NoCall EXCEPT !.op = "getVersion", !.by = "caller",
                                      !.reached = reachable,
                                      !.data = IF reachable THEN <<served.version>>
                                               ELSE <<>>,
                                      !.error = ~reachable]
    /\ UNCHANGED <<releases, served, autoRefreshInterval, ready, refreshTimer, stopped,
                   serverVars, tagVars, etagVars, overrideVars, filterVars, scoreVars,
                   corsVars, storeVars>>

LLMClient_checkForUpdates ==
    /\ ready
    /\ called = NoCall
    /\ \E reachable \in BOOLEAN, again \in BOOLEAN :
          LET r == UpdateResult(cache, reachable, again)
          IN  /\ cache' = r.cache
              /\ called' = [NoCall EXCEPT !.op = "checkForUpdates", !.by = "caller",
                                          !.reached = reachable /\ again,
                                          !.fetched = r.fetched,
                                          !.notified = r.notified,
                                          !.result = r.result]
    /\ UNCHANGED <<releases, served, autoRefreshInterval, ready, refreshTimer, stopped,
                   serverVars, tagVars, etagVars, overrideVars, filterVars, scoreVars,
                   corsVars, storeVars>>

\* the refresh timer fires and its callback runs checkForUpdates()
Tick ==
    /\ refreshTimer
    /\ called = NoCall
    /\ \E reachable \in BOOLEAN, again \in BOOLEAN :
          LET r == UpdateResult(cache, reachable, again)
          IN  /\ cache' = r.cache
              /\ called' = [NoCall EXCEPT !.op = "checkForUpdates", !.by = "timer",
                                          !.reached = reachable /\ again,
                                          !.fetched = r.fetched,
                                          !.notified = r.notified,
                                          !.result = r.result]
    /\ UNCHANGED <<releases, served, autoRefreshInterval, ready, refreshTimer, stopped,
                   serverVars, tagVars, etagVars, overrideVars, filterVars, scoreVars,
                   corsVars, storeVars>>

stopAutoRefresh ==
    /\ refreshTimer' = FALSE
    /\ stopped' = TRUE
    /\ UNCHANGED <<releases, served, cache, autoRefreshInterval, ready, called,
                   serverVars, tagVars, etagVars, overrideVars, filterVars, scoreVars,
                   corsVars, storeVars>>

\* destroy(): stopAutoRefresh() and clearCache()
destroy ==
    /\ refreshTimer' = FALSE
    /\ stopped' = TRUE
    /\ cache' = NoCache
    /\ UNCHANGED <<releases, served, autoRefreshInterval, ready, called,
                   serverVars, tagVars, etagVars, overrideVars, filterVars, scoreVars,
                   corsVars, storeVars>>

\* the call returns to its caller; the next call can be made
Return ==
    /\ called # NoCall
    /\ called' = NoCall
    /\ UNCHANGED <<releases, served, cache, autoRefreshInterval, ready, refreshTimer, stopped,
                   serverVars, tagVars, etagVars, overrideVars, filterVars, scoreVars,
                   corsVars, storeVars>>

NextClient ==
    \/ Publish
    \/ initializePersistence
    \/ LLMClient_getManifest
    \/ LLMClient_getVersion
    \/ LLMClient_checkForUpdates
    \/ Tick
    \/ stopAutoRefresh
    \/ destroy
    \/ Return

SpecClient == InitClient /\ [][NextClient]_vars

(***************************************************************************)
(* The search of the client (client/src/index.ts).                         *)
(***************************************************************************)
\* a client whose persistence initialisation is over, with nothing or a
\* manifest in its cache
InitSearch ==
    /\ releases = ServedManifests
    /\ served \in releases
    /\ cache \in {NoCache} \cup {CacheOf(m) : m \in releases}
    /\ autoRefreshInterval = 0
    /\ ready = TRUE
    /\ refreshTimer = FALSE
    /\ stopped = FALSE
    /\ called = NoCall
    /\ ServerIdle
    /\ TagsIdle
    /\ EtagIdle
    /\ OverridesIdle
    /\ FilterIdle
    /\ ScoreIdle
    /\ CorsIdle
    /\ StoreIdle

\* searchModels(query, options): the request to /v1/models/search succeeds
\* when reachable, the request of the fallback to /v1/manifest when again
LLMClient_searchModels ==
    /\ ready
    /\ called = NoCall
    /\ \E query \in ClientQueries, forceRefresh \in BOOLEAN,
          reachable \in BOOLEAN, again \in BOOLEAN :
          LET cachedManifest == IF ~forceRefresh THEN cache.manifest ELSE <<>>
              r == ManifestResult(cache, forceRefresh, again)
              base == [NoCall EXCEPT !.op = "searchModels", !.by = "caller",
                                     !.reached = reachable, !.query = query]
          IN  IF reachable
              THEN /\ cache' = cache
                   /\ called' = [base EXCEPT
                                    !.data = <<filterModels(served.models,
                                                 SearchQueryOf(SearchParams(query)))>>]
              ELSE IF cachedManifest # <<>>
              THEN /\ cache' = cache
                   /\ called' = [base EXCEPT
                                    !.data = <<filterModels(cachedManifest[1].models,
                                                            query)>>,
                                    !.cached = TRUE]
              ELSE /\ cache' = r.cache
                   /\ called' = IF r.error THEN [base EXCEPT !.error = TRUE]
                                ELSE [base EXCEPT
                                         !.fetched = r.fetched,
                                         !.notified = r.notified,
                                         !.data = <<filterModels(r.data[1].models, query)>>,
                                         !.cached = r.cached]
    /\ UNCHANGED <<releases, served, autoRefreshInterval, ready, refreshTimer, stopped,
                   serverVars, tagVars, etagVars, overrideVars, filterVars, scoreVars,
                   corsVars, storeVars>>

NextSearch ==
    \/ LLMClient_searchModels
    \/ Return

SpecSearch == InitSearch /\ [][NextSearch]_vars

(***************************************************************************)
(* Properties of the client.                                               *)
(***************************************************************************)
\* a call of checkForUpdates() whose requests were answered is returning
UpdateChecked == called = NoCall /\ called'.op = "checkForUpdates" /\ called'.reached

\* C23: when the client holds a cached manifest and checkForUpdates() reaches
\* the server, then if the version the server holds differs from the version
\* of the cached manifest the call fetches the manifest, replaces the cached
\* one and returns true, and if the versions are equal it returns false and
\* leaves the cache as it was, whatever calls were made before.
C23_CheckForUpdatesRefreshes ==
    [][(UpdateChecked /\ cache.manifest # <<>>)
       => IF served.version # cache.manifest[1].version
          THEN called'.result /\ cache'.manifest = <<served>>
          ELSE ~called'.result /\ cache' = cache]_vars

\* C24: whenever a fetched manifest is put in the cache, onUpdate is called
\* once if the cache held no manifest or one of another version or etag, and
\* is not called if the manifest fetched is the one already cached.
C24_OnUpdateOnChange ==
    [][(called = NoCall /\ called'.fetched # <<>>)
       => LET manifest == called'.fetched[1]
          IN  /\ (\/ cache.manifest = <<>>
                  \/ cache.manifest[1].version # manifest.version
                  \/ cache.manifest[1].etag # manifest.etag)
                 => called'.notified = 1
              /\ cache.manifest = <<manifest>> => called'.notified = 0]_vars

\* C27: once stopAutoRefresh() or destroy() has returned, the client has no
\* refresh timer and no timer runs checkForUpdates(), wherever the
\* persistence initialisation of the constructor stands.
C27_NoTimerAfterStop ==
    /\ [](stopped => ~refreshTimer)
    /\ [][stopped => ~(called = NoCall /\ called'.by = "timer")]_vars

\* C28: the result searchModels(q) obtains from /v1/models/search is
\* filterModels(manifest.models, q) for the manifest the server holds, the
\* result of the local fallback over that manifest.
C28_SearchAligned ==
    (called.op = "searchModels" /\ called.reached)
    => called.data = <<filterModels(served.models, called.query)>>

====
